---------------------------- MODULE Spec2Model ----------------------------
(***************************************************************************)
(* A model of the concurrent core of glosentra:                            *)
(*   - ModelRegistry   (core/model_registry.py): lazily loaded models      *)
(*     behind one lock;                                                    *)
(*   - InferenceEngine (core/inference.py): the pipeline run_inference     *)
(*     and the thread pool behind run_async / shutdown;                    *)
(*   - AnalyticsDB     (core/db.py): the write queue, its producers        *)
(*     log_inference / log_model_usage and the background writer.          *)
(* Each component has its own next-state relation and specification.      *)
(* StoreSpec and SinkSpec start in the state after the modules are loaded; *)
(* PoolSpec starts where the warm-up thread of create_app has finished.    *)
(***************************************************************************)
EXTENDS Integers, Sequences, FiniteSets, TLC

VARIABLES
    \* ---- ModelRegistry
    models,      \* _models: task -> handle (0: no entry for the task)
    modelLock,   \* _model_lock: the thread holding it, or NoThread
    gpc,         \* per thread: where it is inside get_model / _load_model
    gtask,       \* per thread: the task argument of its get_model call
    gret,        \* per thread: what its last get_model call returned
    gpath,       \* per thread: the artifact _load_model resolved
    gcalls,      \* number of direct get_model calls made so far (bounded)
    nextHandle,  \* number of YOLO objects constructed so far
    loads,       \* history: task -> number of _load_model invocations
    okLoads,     \* history: task -> number of loads that installed a handle
    gen,         \* history, per thread: loads[task] when its call began
    didLoad,     \* history, per thread: its current call ran _load_model
    firstRes,    \* history: task -> results of the calls begun before any load
    firstLoads,  \* history: task -> loads run by those calls
    firstFailed, \* history: task -> those of them that installed nothing
    preIdx,      \* preload_models: number of tasks of its list it is done with
    preLog,      \* history: per task done, what get_model gave and the warm-up
    preEnd,      \* preload_models is running, has returned or has raised
    \* ---- InferenceEngine
    jstate,      \* per submission: new, queued, running, done or rejected
    jtask,       \* per submission: the task argument of run_async
    future,      \* per submission: what its Future holds once it is done
    cstate,      \* per submission: its caller is idle, waiting or returned
    cret,        \* per submission: what run_async gave its caller
    workQueue,   \* the executor's work queue, oldest first
    wjob,        \* per worker thread: the submission it runs (0: none)
    poolShutdown,\* the executor's _shutdown flag
    espc,        \* InferenceEngine.shutdown: where its caller is
    engine,      \* InferenceEngine.__init__: its argument, the cpu
                 \* count it read, and self.max_workers
    runs,        \* history, per submission: times run_inference was started
    jfault,      \* history, per submission: the stage that raised
    ctimedOut,   \* history, per submission: its caller's wait timed out
    jafter,      \* history, per submission: made after shutdown had begun
    atShutdown,  \* history: the submissions pending when shutdown began
    jstages,     \* history, per submission: the stages its run entered
    \* ---- AnalyticsDB
    writeQueue,  \* _write_queue: the queued write items, oldest first
    stopEvent,   \* _stop_event
    wpc,         \* _background_writer: where the writer thread is
    writes,      \* _background_writer: the local list `writes`
    rows,        \* the rows committed to the database, in insertion order
    ppc,         \* per producer: where it is inside log_inference_run
    psuccess,    \* per producer: the success argument of its call
    sdpc,        \* AnalyticsDB.shutdown: where its caller is
    logCalls,    \* number of log_inference_run calls made so far (bounded)
    nextItem,    \* number of write items created so far
    enqCalls,    \* history: log_inference / log_model_usage calls returned
    dropped,     \* history: those of them that dropped their item
    accepted,    \* history: the items put into the queue
    discarded,   \* history: the items of batches whose transaction failed
    atStop,      \* history: the queue as it was when shutdown was called
    nextAtFail,  \* history: nextItem when a transaction last failed
    \* ---- process_image (routes/api.py)
    hpc,         \* per request thread: where it is inside process_image
    hreq,        \* per request thread: the request it handles
    hjob,        \* per request thread: the submission it made (0: none)
    hresp,       \* per request thread: the status of its response (0: none)
    enableAnalytics, \* config ENABLE_ANALYTICS
    received,    \* number of requests received so far (bounded)
    \* ---- run_inference: the timing of one successful call
    tclock,      \* what time.time() returns now
    tpc,         \* number of time.time() readings the call has taken
    tm,          \* start_time, the running stage's start, the stage times
    tresult,     \* the timing part of the dict the call returned
    tsetbacks,   \* number of times the system clock was set back (bounded)
    trow,        \* the inference_runs item log_inference built for the call
    \* ---- _process_results
    prCalls,     \* number of _process_results calls made so far
    prTask,      \* the task argument of the call
    prResults,   \* the results argument of the call
    prOutput,    \* the dict the call returned
    \* ---- get_analytics_db / shutdown_analytics_db
    analyticsDb, \* _analytics_db: the global instance (0: None)
    created,     \* number of AnalyticsDB objects constructed so far
    dbWriter,    \* per AnalyticsDB object: its writer thread
    dbStop,      \* per AnalyticsDB object: its _stop_event
    lpc,         \* per thread: where it is inside one of the two functions
    llocal,      \* per thread: the object whose shutdown() it called
    lgot,        \* per thread: what its last get_analytics_db returned
    stRows,      \* the rows of table inference_runs, in insertion order
    stOut,       \* what get_stats returned, NoStats before the call
    stFailed,    \* history: the call ended in its except clause
    spc,         \* get_stats run query by query: the next query
    sread,       \* what its queries have returned so far
    rcRows,      \* inference_runs again, with the id and timestamp columns
    rcNow,       \* CURRENT_TIMESTAMP, in whole seconds
    rcLimit,     \* the limit of the get_recent_runs call
    rcOut,       \* what get_recent_runs returned, NoRecent before the call
    okwargs,     \* the keyword arguments of a run_inference call
    opredict,    \* the imgsz and conf its model.predict call was given
    \* ---- ModelRegistry.__new__ / __init__
    reg,         \* the class attributes _instance and _lock, and the
                 \* instance's _initialized, _models and _model_lock
    rpc,         \* per constructing thread: where it is
    rheld,       \* per constructing thread: the _model_lock object it holds
    rhist,       \* history: runs of the body of __init__, handles lost
    \* ---- get_models (routes/api.py)
    lsIdx,       \* the tasks the loop of get_models has dealt with
    lsOut        \* the `models` dict it builds, as a list in insertion order

storeVars == <<models, modelLock, gpc, gtask, gret, gpath, gcalls, nextHandle,
               loads, okLoads, gen, didLoad, firstRes, firstLoads, firstFailed,
               preIdx, preLog, preEnd>>

preVars == <<preIdx, preLog, preEnd>>

poolVars == <<jstate, jtask, future, cstate, cret, workQueue, wjob,
              poolShutdown, espc, engine, runs, jfault, ctimedOut, jafter, atShutdown,
              jstages>>

sinkVars == <<writeQueue, stopEvent, wpc, writes, rows, ppc, psuccess, sdpc,
              logCalls, nextItem, enqCalls, dropped, accepted, discarded,
              atStop, nextAtFail>>

apiVars == <<hpc, hreq, hjob, hresp, enableAnalytics, received>>

\* The variables outside the registry, the engine and the database
timingVars == <<tclock, tpc, tm, tresult, tsetbacks, trow>>

optionVars == <<okwargs, opredict>>

buildVars == <<reg, rpc, rheld, rhist>>

listVars == <<lsIdx, lsOut>>

postVars == <<prCalls, prTask, prResults, prOutput, optionVars, buildVars,
              listVars>>

lifeVars == <<analyticsDb, created, dbWriter, dbStop, lpc, llocal, lgot>>

recentVars == <<rcRows, rcNow, rcLimit, rcOut>>

statsVars == <<stRows, stOut, stFailed, spc, sread, recentVars>>

restVars == <<apiVars, timingVars, postVars, lifeVars, statsVars>>

outsideStats ==
    <<storeVars, poolVars, sinkVars, apiVars, timingVars, postVars, lifeVars>>

vars == <<storeVars, poolVars, sinkVars, restVars>>

\* What the steps of one component leave alone
outsideStore == <<poolVars, sinkVars, restVars>>
outsideSink == <<storeVars, poolVars, restVars>>

----------------------------------------------------------------------------
\* Bounds of the model
MaxGetCalls == 3      \* direct get_model calls in a run
MaxLogCalls == 3      \* log_inference_run calls in a run
FairLogCalls == 2     \* the same, in the runs with a fair writer
MaxJobs == 2          \* run_async calls in a run
\* The queue threshold of log_inference (1000 in db.py, line 130) and the
\* batch cap of the writer (100 in db.py, line 75), scaled down.
QueueLimit == 2
BatchCap == 2
MaxRequests == 2      \* requests received in a run
\* The upload limit MAX_CONTENT_LENGTH (16 MB in config.py, line 17), scaled
\* down.
MaxUpload == 1
MaxClock == 6         \* the furthest the clock advances in a run
MaxSetBacks == 1      \* adjustments of the system clock in a run
MaxInstances == 3     \* AnalyticsDB objects constructed in a run
MaxBoxes == 2         \* boxes in a result
MaxClasses == 6       \* classes of a classification model
MaxProb == 2          \* distinct confidence values
MaxRows == 2          \* rows of inference_runs
MaxFps == 1           \* largest fps value of a row
MaxMs == 1            \* largest inference_time_ms value of a row
MaxRecent == 3        \* rows of inference_runs before get_recent_runs
MaxSecond == 2        \* seconds the clock advances
MaxLimit == 2         \* largest limit of a get_recent_runs call
MaxConfigured == 2    \* largest max_workers given to InferenceEngine
MaxCpus == 9          \* largest os.cpu_count() of a host
MaxBuilders == 2      \* threads that call ModelRegistry()
MaxOption == 5        \* largest size of an imgsz or conf given by a caller
\* The default image size of run_inference, inference.py line 42
\* InferenceEngine.__init__: the pool sizes the cpu count is clamped to
MinPoolSize == 2
MaxPoolSize == 8
DefaultImgsz == 640
\* The number of classes _process_results keeps, inference.py line 142
TopK == 5

\* The four tasks of the application; the model keeps two of them.
Tasks == {"detect", "classify"}

\* Threads that call get_model directly. A request thread (get_models of
\* routes/api.py) runs inside a Flask application context, as the warm-up
\* thread does; "bg" stands for a thread without one (the pool's worker
\* threads are such threads).
StoreCallers == {"req1", "bg"}
\* The executor's worker threads, in the order the executor starts them
WorkerOrder == <<"wk1", "wk2">>
Workers == {WorkerOrder[i] : i \in DOMAIN WorkerOrder}
\* The thread create_app starts for preload_models
Warmup == "warmup"
Threads == StoreCallers \cup Workers \cup {Warmup}
\* The threads that can be inside run_inference: the workers, and a thread
\* with an application context that calls the pipeline itself.
PipelineThreads == Workers \cup {"req1"}
NoThread == "none"

HasAppContext(t) == t \in {"req1", "warmup"}

\* Results of get_model
RetPending == [kind |-> "pending", h |-> 0]
RetNone    == [kind |-> "none", h |-> 0]
RetRaised  == [kind |-> "raised", h |-> 0]
RetHandle(h) == [kind |-> "handle", h |-> h]

----------------------------------------------------------------------------
\* ModelRegistry

StoreInit ==
    /\ models = [k \in Tasks |-> 0]
    /\ modelLock = NoThread
    /\ gpc = [t \in Threads |-> "idle"]
    /\ gtask = [t \in Threads |-> "detect"]
    /\ gret = [t \in Threads |-> RetPending]
    /\ gpath = [t \in Threads |-> "none"]
    /\ gcalls = 0
    /\ nextHandle = 0
    /\ loads = [k \in Tasks |-> 0]
    /\ okLoads = [k \in Tasks |-> 0]
    /\ gen = [t \in Threads |-> 0]
    /\ didLoad = [t \in Threads |-> FALSE]
    /\ firstRes = [k \in Tasks |-> {}]
    /\ firstLoads = [k \in Tasks |-> 0]
    /\ firstFailed = [k \in Tasks |-> 0]
    /\ preIdx = 0
    /\ preLog = <<>>
    /\ preEnd = "running"

\* `with self._model_lock:` may be entered by t
LockFreeNoMutex(t) == TRUE
LockFree(t) == modelLock = NoThread

\* The threads inside _load_model
Loading == {t \in Threads : gpc[t] \in {"config", "primary", "fallback"}}

\* A thread enters get_model(task): it now competes for the lock.
BeginGet(t, task) ==
    /\ gpc' = [gpc EXCEPT ![t] = "acquire"]
    /\ gtask' = [gtask EXCEPT ![t] = task]
    /\ gret' = [gret EXCEPT ![t] = RetPending]
    /\ gen' = [gen EXCEPT ![t] = loads[task]]
    /\ didLoad' = [didLoad EXCEPT ![t] = FALSE]

\* A direct caller calls get_model(task)
StoreCall(t, task) ==
    /\ gpc[t] = "idle"
    /\ gcalls < MaxGetCalls
    /\ BeginGet(t, task)
    /\ gcalls' = gcalls + 1
    /\ UNCHANGED <<models, modelLock, gpath, nextHandle, loads, okLoads,
                   firstRes, firstLoads, firstFailed>>
    /\ UNCHANGED <<preVars, outsideStore>>

\* a get_model that loads whether or not the task has an entry
GetAcquireReload(t) ==
    /\ gpc[t] = "acquire"
    /\ LockFree(t)
    /\ modelLock' = t
    /\ gpc' = [gpc EXCEPT ![t] = "config"]
    /\ loads' = [loads EXCEPT ![gtask[t]] = @ + 1]
    /\ didLoad' = [didLoad EXCEPT ![t] = TRUE]
    /\ firstLoads' = IF gen[t] = 0
                       THEN [firstLoads EXCEPT ![gtask[t]] = @ + 1]
                       ELSE firstLoads
    /\ UNCHANGED <<models, gtask, gret, gpath, gcalls, nextHandle, okLoads,
                   gen, firstRes, firstFailed>>
    /\ UNCHANGED <<preVars, outsideStore>>

\* get_model: take the lock and test `task not in self._models`
GetAcquire(t) ==
    /\ gpc[t] = "acquire"
    /\ LockFree(t)
    /\ modelLock' = t
    /\ IF models[gtask[t]] = 0
         THEN /\ gpc' = [gpc EXCEPT ![t] = "config"]
              /\ loads' = [loads EXCEPT ![gtask[t]] = @ + 1]
              /\ didLoad' = [didLoad EXCEPT ![t] = TRUE]
              /\ firstLoads' = IF gen[t] = 0
                                 THEN [firstLoads EXCEPT ![gtask[t]] = @ + 1]
                                 ELSE firstLoads
         ELSE /\ gpc' = [gpc EXCEPT ![t] = "ret"]
              /\ UNCHANGED <<loads, didLoad, firstLoads>>
    /\ UNCHANGED <<models, gtask, gret, gpath, gcalls, nextHandle, okLoads,
                   gen, firstRes, firstFailed>>
    /\ UNCHANGED <<preVars, outsideStore>>

\* a get_model whose lock is released on a return only
EndGetHoldOnRaise(t, r) ==
    /\ modelLock' = IF r.kind = "raised" THEN modelLock ELSE NoThread
    /\ gpc' = [gpc EXCEPT ![t] = "done"]
    /\ gret' = [gret EXCEPT ![t] = r]
    /\ gpath' = [gpath EXCEPT ![t] = "none"]
    /\ firstRes' = IF gen[t] = 0
                     THEN [firstRes EXCEPT ![gtask[t]] = @ \cup {r}]
                     ELSE firstRes
    /\ firstFailed' = IF gen[t] = 0 /\ didLoad[t] /\ r.kind # "handle"
                        THEN [firstFailed EXCEPT ![gtask[t]] = @ + 1]
                        ELSE firstFailed

\* The end of a get_model call with result r: the lock is released by the
\* `with` block, on a return and on an exception alike.
EndGet(t, r) ==
    /\ modelLock' = NoThread
    /\ gpc' = [gpc EXCEPT ![t] = "done"]
    /\ gret' = [gret EXCEPT ![t] = r]
    /\ gpath' = [gpath EXCEPT ![t] = "none"]
    /\ firstRes' = IF gen[t] = 0
                     THEN [firstRes EXCEPT ![gtask[t]] = @ \cup {r}]
                     ELSE firstRes
    /\ firstFailed' = IF gen[t] = 0 /\ didLoad[t] /\ r.kind # "handle"
                        THEN [firstFailed EXCEPT ![gtask[t]] = @ + 1]
                        ELSE firstFailed

\* _load_model, lines 56-70: read MODEL_PATHS from current_app.config and
\* resolve the artifact. Outside an application context current_app raises
\* RuntimeError, which no handler in _load_model or get_model catches.
LoadConfig(t) ==
    /\ gpc[t] = "config"
    /\ IF HasAppContext(t)
         THEN /\ \E exists \in BOOLEAN :
                    gpath' = [gpath EXCEPT ![t] =
                                 IF exists THEN "configured" ELSE "default"]
              /\ gpc' = [gpc EXCEPT ![t] = "primary"]
              /\ UNCHANGED <<modelLock, gret, firstRes, firstFailed>>
         ELSE EndGet(t, RetRaised)
    /\ UNCHANGED <<models, gtask, gcalls, nextHandle, loads, okLoads, gen,
                   didLoad, firstLoads>>
    /\ UNCHANGED <<preVars, outsideStore>>

\* self._models[task] = YOLO(path) succeeded
Install(t) ==
    /\ nextHandle' = nextHandle + 1
    /\ models' = [models EXCEPT ![gtask[t]] = nextHandle + 1]
    /\ okLoads' = [okLoads EXCEPT ![gtask[t]] = @ + 1]

\* a first YOLO(model_path) whose failure is final
LoadPrimaryNoFallback(t) ==
    /\ gpc[t] = "primary"
    /\ \E ok \in BOOLEAN :
          IF ok THEN Install(t)
                ELSE UNCHANGED <<models, nextHandle, okLoads>>
    /\ gpc' = [gpc EXCEPT ![t] = "ret"]
    /\ UNCHANGED <<modelLock, gtask, gret, gpath, gcalls, loads, gen, didLoad,
                   firstRes, firstLoads, firstFailed>>
    /\ UNCHANGED <<preVars, outsideStore>>

\* _load_model, lines 72-78: the first YOLO(model_path)
LoadPrimary(t) ==
    /\ gpc[t] = "primary"
    /\ \E ok \in BOOLEAN :
          IF ok THEN /\ Install(t)
                     /\ gpc' = [gpc EXCEPT ![t] = "ret"]
                ELSE /\ gpc' = [gpc EXCEPT ![t] = "fallback"]
                     /\ UNCHANGED <<models, nextHandle, okLoads>>
    /\ UNCHANGED <<modelLock, gtask, gret, gpath, gcalls, loads, gen, didLoad,
                   firstRes, firstLoads, firstFailed>>
    /\ UNCHANGED <<preVars, outsideStore>>

\* _load_model, lines 79-92: one more YOLO(default); a second failure is
\* logged and leaves _models without the task.
LoadFallback(t) ==
    /\ gpc[t] = "fallback"
    /\ \E ok \in BOOLEAN :
          IF ok THEN Install(t)
                ELSE UNCHANGED <<models, nextHandle, okLoads>>
    /\ gpc' = [gpc EXCEPT ![t] = "ret"]
    /\ gpath' = [gpath EXCEPT ![t] = "default"]
    /\ UNCHANGED <<modelLock, gtask, gret, gcalls, loads, gen, didLoad,
                   firstRes, firstLoads, firstFailed>>
    /\ UNCHANGED <<preVars, outsideStore>>

\* get_model, line 52: return self._models.get(task)
GetReturn(t) ==
    /\ gpc[t] = "ret"
    /\ EndGet(t, IF models[gtask[t]] = 0 THEN RetNone
                 ELSE RetHandle(models[gtask[t]]))
    /\ UNCHANGED <<models, gtask, gcalls, nextHandle, loads, okLoads, gen,
                   didLoad, firstLoads>>
    /\ UNCHANGED <<preVars, outsideStore>>

\* The caller of get_model has used the result: its frame is gone.
LeaveGet(t) ==
    /\ gpc' = [gpc EXCEPT ![t] = "idle"]
    /\ gtask' = [gtask EXCEPT ![t] = "detect"]
    /\ gret' = [gret EXCEPT ![t] = RetPending]
    /\ gen' = [gen EXCEPT ![t] = 0]
    /\ didLoad' = [didLoad EXCEPT ![t] = FALSE]

\* The direct caller has its result and may call again.
StoreCallEnd(t) ==
    /\ gpc[t] = "done"
    /\ LeaveGet(t)
    /\ UNCHANGED <<models, modelLock, gpath, gcalls, nextHandle, loads,
                   okLoads, firstRes, firstLoads, firstFailed>>
    /\ UNCHANGED <<preVars, outsideStore>>

\* The steps of get_model that any thread inside it takes
GetStep(t) ==
    \/ GetAcquire(t)
    \/ LoadConfig(t)
    \/ LoadPrimary(t)
    \/ LoadFallback(t)
    \/ GetReturn(t)

\* preload_models, run by the warm-up thread inside app.app_context()

\* The list create_app passes, restricted to the tasks of the model
PreloadTasks == <<"detect", "classify">>

\* preload_models, line 97: model = self.get_model(task), next task of the list
PreloadCall ==
    /\ gpc[Warmup] = "idle"
    /\ preEnd = "running"
    /\ preIdx < Len(PreloadTasks)
    /\ BeginGet(Warmup, PreloadTasks[preIdx + 1])
    /\ UNCHANGED <<models, modelLock, gpath, gcalls, nextHandle, loads,
                   okLoads, firstRes, firstLoads, firstFailed, preVars>>
    /\ UNCHANGED outsideStore

\* lines 98-106: `if model:` runs one predict on a 64x64 image, which
\* succeeds or raises inside the try block; without a model nothing is run
WarmOutcomes(r) == IF r.kind = "handle" THEN {"ok", "failed"} ELSE {"skipped"}

\* the end of the loop's body for the current task
PreloadStep(warm) ==
    /\ preLog' = Append(preLog, [task |-> gtask[Warmup],
                                 got |-> gret[Warmup].kind, warm |-> warm])
    /\ preIdx' = preIdx + 1
    /\ preEnd' = IF preIdx + 1 = Len(PreloadTasks) THEN "returned"
                 ELSE "running"

\* an exception leaves preload_models
PreloadRaise ==
    /\ preLog' = Append(preLog, [task |-> gtask[Warmup],
                                 got |-> gret[Warmup].kind,
                                 warm |-> "skipped"])
    /\ preEnd' = "raised"
    /\ UNCHANGED preIdx

\* a warm-up whose failure leaves preload_models
PreloadWarmAbort ==
    /\ gpc[Warmup] = "done"
    /\ LeaveGet(Warmup)
    /\ IF gret[Warmup].kind = "raised"
         THEN PreloadRaise
         ELSE \E warm \in WarmOutcomes(gret[Warmup]) :
                 IF warm = "failed" THEN PreloadRaise ELSE PreloadStep(warm)
    /\ UNCHANGED <<models, modelLock, gpath, gcalls, nextHandle, loads,
                   okLoads, firstRes, firstLoads, firstFailed>>
    /\ UNCHANGED outsideStore

\* lines 97-106: get_model has returned or raised. Its exception is not
\* caught here; the exception of the predict is caught and logged; then
\* on to the next task.
PreloadWarm ==
    /\ gpc[Warmup] = "done"
    /\ LeaveGet(Warmup)
    /\ IF gret[Warmup].kind = "raised"
         THEN PreloadRaise
         ELSE \E warm \in WarmOutcomes(gret[Warmup]) : PreloadStep(warm)
    /\ UNCHANGED <<models, modelLock, gpath, gcalls, nextHandle, loads,
                   okLoads, firstRes, firstLoads, firstFailed>>
    /\ UNCHANGED outsideStore

\* get_models (routes/api.py, lines 21-46), run by a request thread

\* The keys of model_configs in their order, restricted to the tasks of the
\* model
ListTasks == <<"detect", "classify">>

\* an entry that says loaded whatever get_model returned
LoadedAlways(r) == TRUE

\* line 38: 'loaded': model is not None
Loaded(r) == r.kind = "handle"

\* line 35: model = get_model(task), next key of the dict
ListCall(t) ==
    /\ gpc[t] = "idle"
    /\ lsIdx < Len(ListTasks)
    /\ BeginGet(t, ListTasks[lsIdx + 1])
    /\ UNCHANGED <<models, modelLock, gpath, gcalls, nextHandle, loads,
                   okLoads, firstRes, firstLoads, firstFailed, preVars>>
    /\ UNCHANGED <<lsIdx, lsOut>>
    /\ UNCHANGED <<prCalls, prTask, prResults, prOutput, optionVars, buildVars>>
    /\ UNCHANGED <<poolVars, sinkVars, apiVars, timingVars, lifeVars,
                   statsVars>>

\* lines 36-40: the entry of the task; an exception of get_model ends the
\* loop in the except clause (lines 47-52), whose response has no `models`
ListNote(t) ==
    /\ gpc[t] = "done"
    /\ lsIdx < Len(ListTasks)
    /\ LeaveGet(t)
    /\ IF gret[t].kind = "raised"
         THEN /\ lsOut' = <<>>
              /\ lsIdx' = Len(ListTasks)
         ELSE /\ lsOut' = Append(lsOut, [task |-> gtask[t],
                                         loaded |-> Loaded(gret[t])])
              /\ lsIdx' = lsIdx + 1
    /\ UNCHANGED <<models, modelLock, gpath, gcalls, nextHandle, loads,
                   okLoads, firstRes, firstLoads, firstFailed, preVars>>
    /\ UNCHANGED <<prCalls, prTask, prResults, prOutput, optionVars, buildVars>>
    /\ UNCHANGED <<poolVars, sinkVars, apiVars, timingVars, lifeVars,
                   statsVars>>

\* One GET /api/models while the warm-up thread runs preload_models
ListNext ==
    \/ ListCall("req1")
    \/ GetStep("req1")
    \/ ListNote("req1")
    \/ PreloadCall
    \/ GetStep(Warmup)
    \/ PreloadWarm

StoreNext ==
    \/ \E t \in StoreCallers :
          \/ \E task \in Tasks : StoreCall(t, task)
          \/ GetStep(t)
          \/ StoreCallEnd(t)
    \/ PreloadCall
    \/ GetStep(Warmup)
    \/ PreloadWarm

----------------------------------------------------------------------------
\* InferenceEngine

Jobs == 1..MaxJobs

\* A result dict: the keys it has, its success flag, task and error text.
\* `raised` marks an exception in the place of a dict; `from` is the
\* submission whose run_inference call built the dict (0: run_async built
\* it).
SuccessKeys == {"success", "predictions", "timing", "fps", "task"}
FailureKeys == {"success", "error", "task"}

NoResult == [raised |-> FALSE, success |-> FALSE, task |-> "none",
             keys |-> {}, error |-> "none", from |-> 0]

\* run_inference, lines 56-67
Success(task, j) ==
    [raised |-> FALSE, success |-> TRUE, task |-> task,
     keys |-> SuccessKeys, error |-> "none", from |-> j]

\* An exception that leaves the function
Raised(e, j) ==
    [raised |-> TRUE, success |-> FALSE, task |-> "none",
     keys |-> {}, error |-> e, from |-> j]

\* run_inference, lines 69-75: `except Exception as e` around every stage
ExceptValueErrorOnly(task, e, j) ==
    IF e \in {"Failed to decode image", "No model available"}
      THEN [raised |-> FALSE, success |-> FALSE, task |-> task,
            keys |-> FailureKeys, error |-> e, from |-> j]
      ELSE Raised(e, j)
Except(task, e, j) ==
    [raised |-> FALSE, success |-> FALSE, task |-> task,
     keys |-> FailureKeys, error |-> e, from |-> j]

\* The text of the exception a stage raised
ErrorText(stage) ==
    CASE stage = "decode"  -> "Failed to decode image"
      [] stage = "lookup"  -> "Working outside of application context"
      [] stage = "nomodel" -> "No model available"
      [] stage = "infer"   -> "predict raised"
      [] stage = "post"    -> "_process_results raised"

\* run_inference, lines 23-75, as a function of the stage that raised
RunInference(task, stage, j) ==
    IF stage = "none" THEN Success(task, j)
    ELSE Except(task, ErrorText(stage), j)

\* run_async, lines 159-165: the dict returned on TimeoutError
TimeoutResultNoTask(task) ==
    [raised |-> FALSE, success |-> FALSE, task |-> "none",
     keys |-> {"success", "error"}, error |-> "Inference timeout", from |-> 0]
TimeoutResult(task) ==
    [raised |-> FALSE, success |-> FALSE, task |-> task,
     keys |-> FailureKeys, error |-> "Inference timeout", from |-> 0]

PoolIdle ==
    /\ jstate = [j \in Jobs |-> "new"]
    /\ jtask = [j \in Jobs |-> "detect"]
    /\ future = [j \in Jobs |-> NoResult]
    /\ cstate = [j \in Jobs |-> "idle"]
    /\ cret = [j \in Jobs |-> NoResult]
    /\ workQueue = <<>>
    /\ wjob = [w \in PipelineThreads |-> 0]
    /\ poolShutdown = FALSE
    /\ espc = "none"
    /\ runs = [j \in Jobs |-> 0]
    /\ jfault = [j \in Jobs |-> "none"]
    /\ ctimedOut = [j \in Jobs |-> FALSE]
    /\ jafter = [j \in Jobs |-> FALSE]
    /\ atShutdown = {}
    /\ jstages = [j \in Jobs |-> {}]

\* What Python's `or` takes for absent: None (os.cpu_count() may return it,
\* and max_workers defaults to it) and 0 alike
NoValue == 0

Max(a, b) == IF a >= b THEN a ELSE b

Min(a, b) == IF a <= b THEN a ELSE b

\* InferenceEngine.__init__: max_workers or max(2, min(8, os.cpu_count() or 2))
PoolSize(configured, cpus) ==
    IF configured # NoValue
      THEN configured
      ELSE Max(MinPoolSize,
               Min(MaxPoolSize, IF cpus # NoValue THEN cpus ELSE MinPoolSize))

\* InferenceEngine(max_workers) on a host with `cpus` logical CPUs:
\* os.cpu_count() is called only when max_workers is absent.
Engine(configured, cpus) ==
    [configured |-> configured,
     cpus |-> IF configured # NoValue THEN NoValue ELSE cpus,
     max_workers |-> PoolSize(configured, cpus)]

\* ThreadPoolExecutor ignoring max_workers
ActiveWorkersAll == Workers

\* ThreadPoolExecutor(max_workers): it starts a new thread for a submission
\* only while it has fewer than max_workers threads.
ActiveWorkers ==
    {WorkerOrder[i] : i \in 1..Min(engine.max_workers, Len(WorkerOrder))}

\* _inference_engine = InferenceEngine(): no argument, on a host with as many
\* CPUs as the model has worker threads
PoolInit ==
    /\ PoolIdle
    /\ engine = Engine(NoValue, Len(WorkerOrder))

\* ThreadPoolExecutor.submit: refused once shutdown has begun
Accepting == ~poolShutdown

\* run_async, line 156: executor.submit(...). After shutdown it raises
\* RuntimeError, outside the try block of run_async. Submissions are
\* numbered in the order they are made.
SubmitJob(j, task) ==
    /\ UNCHANGED engine
    /\ jstate[j] = "new"
    /\ \A i \in Jobs : i < j => jstate[i] # "new"
    /\ jtask' = [jtask EXCEPT ![j] = task]
    /\ jafter' = [jafter EXCEPT ![j] = poolShutdown]
    /\ IF Accepting
         THEN /\ workQueue' = Append(workQueue, j)
              /\ jstate' = [jstate EXCEPT ![j] = "queued"]
              /\ cstate' = [cstate EXCEPT ![j] = "waiting"]
              /\ UNCHANGED cret
         ELSE /\ jstate' = [jstate EXCEPT ![j] = "rejected"]
              /\ cstate' = [cstate EXCEPT ![j] = "returned"]
              /\ cret' = [cret EXCEPT ![j] =
                     Raised("cannot schedule new futures after shutdown", 0)]
              /\ UNCHANGED workQueue
    /\ UNCHANGED <<future, wjob, poolShutdown, espc, runs, jfault, ctimedOut,
                   atShutdown, jstages>>

\* run_async called on its own
Submit(j, task) ==
    /\ SubmitJob(j, task)
    /\ UNCHANGED <<storeVars, sinkVars, restVars>>

\* The Future of submission j gets the outcome of its run_inference call.
SetFuture(w, j, stage) ==
    /\ future' = [future EXCEPT ![j] = RunInference(jtask[j], stage, j)]
    /\ jfault' = [jfault EXCEPT ![j] = stage]
    /\ jstate' = [jstate EXCEPT ![j] = "done"]
    /\ wjob' = [wjob EXCEPT ![w] = 0]

\* _decode_image, lines 77-99: PIL first, OpenCV second; ValueError when
\* neither decoder gave an image.
DecodeImage(pil, cv) == pil \/ cv

\* run_inference, lines 27-36: the stages entered by the time _decode_image
\* has returned or raised. get_model is called only with a decoded image.
StagesLookupFirst(decoded) == {"decode", "lookup"}
StagesAfterDecode(decoded) ==
    IF decoded THEN {"decode", "lookup"} ELSE {"decode"}

\* run_inference, lines 27-34, for submission j on thread w: decode the
\* image, then call get_model(task).
Decode(w, j) ==
    /\ runs' = [runs EXCEPT ![j] = @ + 1]
    /\ \E pil, cv \in BOOLEAN :
          LET decoded == DecodeImage(pil, cv) IN
            /\ jstages' = [jstages EXCEPT ![j] = StagesAfterDecode(decoded)]
            /\ IF decoded
                 THEN /\ wjob' = [wjob EXCEPT ![w] = j]
                      /\ jstate' = [jstate EXCEPT ![j] = "running"]
                      /\ BeginGet(w, jtask[j])
                      /\ UNCHANGED <<future, jfault>>
                 ELSE /\ SetFuture(w, j, "decode")
                      /\ UNCHANGED <<gpc, gtask, gret, gen, didLoad>>

\* A free worker takes the oldest work item and starts run_inference.
WorkerStart(w) ==
    /\ UNCHANGED engine
    /\ w \in ActiveWorkers
    /\ wjob[w] = 0
    /\ gpc[w] = "idle"
    /\ workQueue # <<>>
    /\ workQueue' = Tail(workQueue)
    /\ Decode(w, Head(workQueue))
    /\ UNCHANGED <<jtask, cstate, cret, poolShutdown, espc, ctimedOut, jafter,
                   atShutdown>>
    /\ UNCHANGED <<models, modelLock, gpath, gcalls, nextHandle, loads,
                   okLoads, firstRes, firstLoads, firstFailed, preVars>>
    /\ UNCHANGED <<sinkVars, restVars>>

\* run_inference, lines 34-52: the stages entered after get_model, given
\* the stage that raised. With no model the ValueError of line 36 comes
\* before predict.
StagesPredictOnNone(fault) ==
    CASE fault = "lookup" -> {}
      [] fault \in {"nomodel", "infer"} -> {"infer"}
      [] OTHER -> {"infer", "post"}
StagesAfterLookup(fault) ==
    CASE fault \in {"lookup", "nomodel"} -> {}
      [] fault = "infer" -> {"infer"}
      [] OTHER -> {"infer", "post"}

\* run_inference, lines 33-75, after get_model: an exception of get_model
\* and a missing model end the call, else predict and _process_results run
\* and either may raise.
WorkerFinish(w) ==
    /\ UNCHANGED engine
    /\ wjob[w] # 0
    /\ gpc[w] = "done"
    /\ \E stage \in {"none", "infer", "post"} :
          LET fault == CASE gret[w].kind = "raised" -> "lookup"
                         [] gret[w].kind = "none"   -> "nomodel"
                         [] OTHER                   -> stage
          IN /\ SetFuture(w, wjob[w], fault)
             /\ jstages' = [jstages EXCEPT ![wjob[w]] =
                                @ \cup StagesAfterLookup(fault)]
    /\ LeaveGet(w)
    /\ UNCHANGED <<jtask, cstate, cret, workQueue, poolShutdown, espc, runs,
                   ctimedOut, jafter, atShutdown>>
    /\ UNCHANGED <<models, modelLock, gpath, gcalls, nextHandle, loads,
                   okLoads, firstRes, firstLoads, firstFailed, preVars>>
    /\ UNCHANGED <<sinkVars, restVars>>

\* run_async, line 158: future.result(timeout) returns what the Future
\* holds, or raises the exception it holds.
CallerResult(j) ==
    /\ UNCHANGED engine
    /\ cstate[j] = "waiting"
    /\ jstate[j] = "done"
    /\ cret' = [cret EXCEPT ![j] = future[j]]
    /\ cstate' = [cstate EXCEPT ![j] = "returned"]
    /\ UNCHANGED <<jstate, jtask, future, workQueue, wjob, poolShutdown, espc,
                   runs, jfault, ctimedOut, jafter, atShutdown, jstages>>
    /\ UNCHANGED <<storeVars, sinkVars, restVars>>

\* run_async, lines 159-165: what the timeout does to the executor's queue:
\* nothing, the Future is neither cancelled nor removed.
CancelOnTimeout(q, j) == SelectSeq(q, LAMBDA x : x # j)
QueueAfterTimeout(q, j) == q

\* run_async, lines 159-165: the wait ran out before the Future was done.
\* a wait whose timeout starts to run when a worker takes the submission
CallerTimeoutOnceStarted(j) ==
    /\ UNCHANGED engine
    /\ cstate[j] = "waiting"
    /\ jstate[j] = "running"
    /\ cret' = [cret EXCEPT ![j] = TimeoutResult(jtask[j])]
    /\ cstate' = [cstate EXCEPT ![j] = "returned"]
    /\ ctimedOut' = [ctimedOut EXCEPT ![j] = TRUE]
    /\ workQueue' = QueueAfterTimeout(workQueue, j)
    /\ UNCHANGED <<jstate, jtask, future, wjob, poolShutdown, espc, runs,
                   jfault, jafter, atShutdown, jstages>>
    /\ UNCHANGED <<storeVars, sinkVars, restVars>>

CallerTimeout(j) ==
    /\ UNCHANGED engine
    /\ cstate[j] = "waiting"
    /\ jstate[j] # "done"
    /\ cret' = [cret EXCEPT ![j] = TimeoutResult(jtask[j])]
    /\ cstate' = [cstate EXCEPT ![j] = "returned"]
    /\ ctimedOut' = [ctimedOut EXCEPT ![j] = TRUE]
    /\ workQueue' = QueueAfterTimeout(workQueue, j)
    /\ UNCHANGED <<jstate, jtask, future, wjob, poolShutdown, espc, runs,
                   jfault, jafter, atShutdown, jstages>>
    /\ UNCHANGED <<storeVars, sinkVars, restVars>>

\* The submissions the executor still has to run or is running
Pending == {j \in Jobs : jstate[j] \in {"queued", "running"}}

\* shutdown, line 169: executor.shutdown(wait=True) sets the flag
EngineShutdown ==
    /\ UNCHANGED engine
    /\ espc = "none"
    /\ poolShutdown' = TRUE
    /\ espc' = "joining"
    /\ atShutdown' = Pending
    /\ UNCHANGED <<jstate, jtask, future, cstate, cret, workQueue, wjob, runs,
                   jfault, ctimedOut, jafter, jstages>>
    /\ UNCHANGED <<storeVars, sinkVars, restVars>>

\* wait=True joins the worker threads, which leave only when the work
\* queue is empty
JoinedNoWait == TRUE
Joined == workQueue = <<>> /\ \A w \in Workers : wjob[w] = 0

EngineShutdownReturn ==
    /\ UNCHANGED engine
    /\ espc = "joining"
    /\ Joined
    /\ espc' = "returned"
    /\ UNCHANGED <<jstate, jtask, future, cstate, cret, workQueue, wjob,
                   poolShutdown, runs, jfault, ctimedOut, jafter, atShutdown,
                   jstages>>
    /\ UNCHANGED <<storeVars, sinkVars, restVars>>

\* What the pool's worker threads do on their own. A worker thread has no
\* application context, so its _load_model ends in LoadConfig and never
\* reaches a YOLO constructor.
PoolWork ==
    \E w \in Workers :
        \/ WorkerStart(w)
        \/ GetAcquire(w)
        \/ LoadConfig(w)
        \/ GetReturn(w)
        \/ WorkerFinish(w)

PoolNext ==
    \/ \E j \in Jobs :
          \/ \E task \in Tasks : Submit(j, task)
          \/ CallerResult(j)
          \/ CallerTimeout(j)
    \/ PoolWork
    \/ EngineShutdown
    \/ EngineShutdownReturn

\* The pool of an engine of any size, all submissions for a task whose
\* model is installed
PoolSizedNext ==
    \/ \E j \in Jobs :
          \/ Submit(j, "detect")
          \/ CallerResult(j)
          \/ CallerTimeout(j)
    \/ \E w \in Workers :
          \/ WorkerStart(w)
          \/ GetAcquire(w)
          \/ GetReturn(w)
          \/ WorkerFinish(w)
    \/ EngineShutdown
    \/ EngineShutdownReturn

\* InferenceEngine.run_inference called by a thread itself instead of
\* through the executor: the call takes the next submission number, and
\* `future` holds what the call returned.
DirectCall(t, j, task) ==
    /\ UNCHANGED engine
    /\ wjob[t] = 0
    /\ gpc[t] = "idle"
    /\ jstate[j] = "new"
    /\ \A i \in Jobs : i < j => jstate[i] # "new"
    /\ jtask' = [jtask EXCEPT ![j] = task]
    /\ jstate' = [jstate EXCEPT ![j] = "called"]
    /\ wjob' = [wjob EXCEPT ![t] = j]
    /\ UNCHANGED <<future, cstate, cret, workQueue, poolShutdown, espc, runs,
                   jfault, ctimedOut, jafter, atShutdown, jstages>>
    /\ UNCHANGED <<storeVars, sinkVars, restVars>>

DirectDecode(t) ==
    /\ UNCHANGED engine
    /\ wjob[t] # 0
    /\ jstate[wjob[t]] = "called"
    /\ Decode(t, wjob[t])
    /\ UNCHANGED <<jtask, cstate, cret, workQueue, poolShutdown, espc,
                   ctimedOut, jafter, atShutdown>>
    /\ UNCHANGED <<models, modelLock, gpath, gcalls, nextHandle, loads,
                   okLoads, firstRes, firstLoads, firstFailed, preVars>>
    /\ UNCHANGED <<sinkVars, restVars>>

\* The pipeline run by a thread that has an application context, in which
\* _load_model reaches the YOLO constructors
PipelineNext ==
    \/ \E j \in Jobs, task \in Tasks : DirectCall("req1", j, task)
    \/ DirectDecode("req1")
    \/ GetStep("req1")
    \/ WorkerFinish("req1")

----------------------------------------------------------------------------
\* AnalyticsDB

\* The request threads that log a run after process_image got its result
Producers == {"p1", "p2"}

Item(id, table) == [id |-> id, table |-> table]

SinkInit ==
    /\ writeQueue = <<>>
    /\ stopEvent = FALSE
    /\ wpc = "top"
    /\ writes = <<>>
    /\ rows = <<>>
    /\ ppc = [p \in Producers |-> "idle"]
    /\ psuccess = [p \in Producers |-> FALSE]
    /\ sdpc = "none"
    /\ logCalls = 0
    /\ nextItem = 0
    /\ enqCalls = 0
    /\ dropped = 0
    /\ accepted = {}
    /\ discarded = {}
    /\ atStop = <<>>
    /\ nextAtFail = 0

\* log_inference, line 130: `self._write_queue.qsize() > 1000`
QueueFull(q) == Len(q) > QueueLimit

\* a put that places the new item at the front of the queue
PutFront(p, table) ==
    /\ writeQueue' = <<Item(nextItem + 1, table)>> \o writeQueue
    /\ nextItem' = nextItem + 1
    /\ accepted' = accepted \cup {nextItem + 1}
    /\ enqCalls' = enqCalls + 1

\* Queue.put on the unbounded Queue() of __init__: it never blocks and
\* never raises Full, so the timeout and the except clause are dead.
Put(p, table) ==
    /\ writeQueue' = Append(writeQueue, Item(nextItem + 1, table))
    /\ nextItem' = nextItem + 1
    /\ accepted' = accepted \cup {nextItem + 1}
    /\ enqCalls' = enqCalls + 1

\* What log_inference_run does after log_inference returned
AfterLogInference(p, success) ==
    ppc' = [ppc EXCEPT ![p] = IF success THEN "usage" ELSE "idle"]

\* AnalyticsService.log_inference_run calls log_inference, which reads
\* qsize(): above the threshold it logs a warning and returns.
LogInferenceCall(p, success) ==
    /\ ppc[p] = "idle"
    /\ logCalls < MaxLogCalls
    /\ logCalls' = logCalls + 1
    /\ psuccess' = [psuccess EXCEPT ![p] = success]
    /\ IF QueueFull(writeQueue)
         THEN /\ dropped' = dropped + 1
              /\ enqCalls' = enqCalls + 1
              /\ AfterLogInference(p, success)
         ELSE /\ ppc' = [ppc EXCEPT ![p] = "put"]
              /\ UNCHANGED <<dropped, enqCalls>>
    /\ UNCHANGED <<writeQueue, stopEvent, wpc, writes, rows, sdpc, nextItem,
                   accepted, discarded, atStop,
                   nextAtFail>>

\* log_inference_run called on its own
LogInference(p, success) ==
    /\ LogInferenceCall(p, success)
    /\ UNCHANGED outsideSink

\* log_inference, lines 134-151: build write_data and put it
LogInferencePut(p) ==
    /\ ppc[p] = "put"
    /\ Put(p, "inference_runs")
    /\ AfterLogInference(p, psuccess[p])
    /\ UNCHANGED <<stopEvent, wpc, writes, rows, psuccess, sdpc, logCalls,
                   dropped, discarded, atStop,
                   nextAtFail>>
    /\ UNCHANGED outsideSink

\* log_model_usage, lines 153-166: put, with no test of the queue's size
LogModelUsage(p) ==
    /\ ppc[p] = "usage"
    /\ Put(p, "model_usage")
    /\ ppc' = [ppc EXCEPT ![p] = "idle"]
    /\ UNCHANGED <<stopEvent, wpc, writes, rows, psuccess, sdpc, logCalls,
                   dropped, discarded, atStop,
                   nextAtFail>>
    /\ UNCHANGED outsideSink

\* _background_writer, line 68: `while not self._stop_event.is_set()`
WriterLoopTest ==
    /\ wpc = "top"
    /\ wpc' = IF stopEvent THEN "exited" ELSE "get"
    /\ UNCHANGED <<writeQueue, stopEvent, writes, rows, ppc, psuccess, sdpc,
                   logCalls, nextItem, enqCalls, dropped, accepted, discarded, atStop,
                   nextAtFail>>
    /\ UNCHANGED outsideSink

\* Queue.get / get_nowait: the queue without its oldest item
DequeueKeep(q) == q
Dequeue(q) == Tail(q)

\* a get that gives up although an item is queued
WriterGetFirstGiveUp ==
    /\ wpc = "get"
    /\ writeQueue # <<>>
    /\ wpc' = "top"
    /\ UNCHANGED <<writeQueue, writes>>
    /\ UNCHANGED <<stopEvent, rows, ppc, psuccess, sdpc, logCalls, nextItem,
                   enqCalls, dropped, accepted, discarded, atStop,
                   nextAtFail>>
    /\ UNCHANGED outsideSink

\* line 73: `writes.append(self._write_queue.get(timeout=1.0))`, an item
\* came within the second
WriterGetFirst ==
    /\ wpc = "get"
    /\ writeQueue # <<>>
    /\ writes' = <<Head(writeQueue)>>
    /\ writeQueue' = Dequeue(writeQueue)
    /\ wpc' = "drain"
    /\ UNCHANGED <<stopEvent, rows, ppc, psuccess, sdpc, logCalls, nextItem,
                   enqCalls, dropped, accepted, discarded, atStop,
                   nextAtFail>>
    /\ UNCHANGED outsideSink

\* lines 80-81: the get timed out on an empty queue, `continue`
WriterGetTimeout ==
    /\ wpc = "get"
    /\ writeQueue = <<>>
    /\ wpc' = "top"
    /\ UNCHANGED <<writeQueue, stopEvent, writes, rows, ppc, psuccess, sdpc,
                   logCalls, nextItem, enqCalls, dropped, accepted, discarded, atStop,
                   nextAtFail>>
    /\ UNCHANGED outsideSink

\* a drain loop that goes on until the queue is empty
WriterDrainNoCap ==
    /\ wpc = "drain"
    /\ IF writeQueue # <<>>
         THEN /\ writes' = Append(writes, Head(writeQueue))
              /\ writeQueue' = Dequeue(writeQueue)
              /\ UNCHANGED wpc
         ELSE /\ wpc' = "write"
              /\ UNCHANGED <<writes, writeQueue>>
    /\ UNCHANGED <<stopEvent, rows, ppc, psuccess, sdpc, logCalls, nextItem,
                   enqCalls, dropped, accepted, discarded, atStop,
                   nextAtFail>>
    /\ UNCHANGED outsideSink

\* lines 75-79: `while len(writes) < 100`, one get_nowait per step; the
\* loop ends at the cap or on Empty.
WriterDrain ==
    /\ wpc = "drain"
    /\ IF Len(writes) < BatchCap /\ writeQueue # <<>>
         THEN /\ writes' = Append(writes, Head(writeQueue))
              /\ writeQueue' = Dequeue(writeQueue)
              /\ UNCHANGED wpc
         ELSE /\ wpc' = "write"
              /\ UNCHANGED <<writes, writeQueue>>
    /\ UNCHANGED <<stopEvent, rows, ppc, psuccess, sdpc, logCalls, nextItem,
                   enqCalls, dropped, accepted, discarded, atStop,
                   nextAtFail>>
    /\ UNCHANGED outsideSink

\* _execute_batch_write: the rows after the `with sqlite3.connect(...)`
\* block, which commits when the block ends normally and rolls the whole
\* transaction back when an exception leaves it.
CommitPartial(rs, b, ok) == IF ok THEN rs \o b ELSE rs \o <<Head(b)>>
Commit(rs, b, ok) == IF ok THEN rs \o b ELSE rs

\* a writer that puts the batch of a failed transaction back
WriterWriteRetry ==
    /\ wpc = "write"
    /\ \E ok \in BOOLEAN :
          /\ rows' = Commit(rows, writes, ok)
          /\ discarded' = IF ok THEN discarded
                          ELSE discarded \cup {writes[i].id : i \in DOMAIN writes}
          /\ nextAtFail' = IF ok THEN nextAtFail ELSE nextItem
          /\ writeQueue' = IF ok THEN writeQueue ELSE writes \o writeQueue
    /\ writes' = <<>>
    /\ wpc' = "top"
    /\ UNCHANGED <<stopEvent, ppc, psuccess, sdpc, logCalls,
                   nextItem, enqCalls, dropped, accepted, atStop>>
    /\ UNCHANGED outsideSink

\* lines 84-85 and 90-124: one transaction for the batch; an exception is
\* logged and the batch is gone either way.
WriterWrite ==
    /\ wpc = "write"
    /\ \E ok \in BOOLEAN :
          /\ rows' = Commit(rows, writes, ok)
          /\ discarded' = IF ok THEN discarded
                          ELSE discarded \cup {writes[i].id : i \in DOMAIN writes}
          /\ nextAtFail' = IF ok THEN nextAtFail ELSE nextItem
    /\ writes' = <<>>
    /\ wpc' = "top"
    /\ UNCHANGED <<writeQueue, stopEvent, ppc, psuccess, sdpc, logCalls,
                   nextItem, enqCalls, dropped, accepted, atStop>>
    /\ UNCHANGED outsideSink

\* AnalyticsDB.shutdown, line 238: self._stop_event.set()
SinkShutdown ==
    /\ sdpc = "none"
    /\ stopEvent' = TRUE
    /\ sdpc' = "joining"
    /\ UNCHANGED <<writeQueue, wpc, writes, rows, ppc, psuccess, logCalls,
                   nextItem, enqCalls, dropped, accepted, discarded,
                   nextAtFail>>
    /\ atStop' = writeQueue
    /\ UNCHANGED outsideSink

\* line 240: join(timeout=5) returns when the writer has exited or when the
\* five seconds are over, whichever comes first.
SinkShutdownReturn ==
    /\ sdpc = "joining"
    /\ sdpc' = "returned"
    /\ UNCHANGED <<writeQueue, stopEvent, wpc, writes, rows, ppc, psuccess,
                   logCalls, nextItem, enqCalls, dropped, accepted, discarded, atStop,
                   nextAtFail>>
    /\ UNCHANGED outsideSink

\* The steps of the writer thread
WriterWork ==
    \/ WriterLoopTest
    \/ WriterGetFirst
    \/ WriterGetTimeout
    \/ WriterDrain
    \/ WriterWrite

\* The producers beside the writer, with no call of shutdown
SinkFairNext ==
    \/ \E p \in Producers :
          \/ \E success \in BOOLEAN :
                logCalls < FairLogCalls /\ LogInference(p, success)
          \/ LogInferencePut(p)
          \/ LogModelUsage(p)
    \/ WriterWork

SinkNext ==
    \/ \E p \in Producers :
          \/ \E success \in BOOLEAN : LogInference(p, success)
          \/ LogInferencePut(p)
          \/ LogModelUsage(p)
    \/ WriterLoopTest
    \/ WriterGetFirst
    \/ WriterGetTimeout
    \/ WriterDrain
    \/ WriterWrite
    \/ SinkShutdown
    \/ SinkShutdownReturn

----------------------------------------------------------------------------
\* process_image (routes/api.py)

\* The request threads are the threads that log a run
Handlers == Producers

\* The model types process_image accepts, line 88
ModelTypes == {"detect", "segment", "classify", "pose"}

NoRequest == [hasImage |-> FALSE, filename |-> "none", size |-> 0,
              type |-> "none"]

\* A request with an image part of the largest size allowed
GoodRequest(type) ==
    [hasImage |-> TRUE, filename |-> "a.jpg", size |-> MaxUpload, type |-> type]

\* The requests of the model: a good one for each task, and one for each way
\* of failing a check.
Requests ==
    {GoodRequest(k) : k \in Tasks}
        \cup {[GoodRequest("detect") EXCEPT !.hasImage = FALSE],
              [GoodRequest("detect") EXCEPT !.filename = ""],
              [GoodRequest("detect") EXCEPT !.size = MaxUpload + 1],
              [GoodRequest("detect") EXCEPT !.type = "invalid"]}

\* process_image, lines 60-92: the status of the early return, 200 when the
\* request passes every check
ValidateNoFilenameCheck(req) ==
    CASE ~req.hasImage -> 400
      [] req.size > MaxUpload -> 413
      [] req.type \notin ModelTypes -> 400
      [] OTHER -> 200
Validate(req) ==
    CASE ~req.hasImage -> 400
      [] req.filename = "" -> 400
      [] req.size > MaxUpload -> 413
      [] req.type \notin ModelTypes -> 400
      [] OTHER -> 200

ApiIdle ==
    /\ hpc = [h \in Handlers |-> "idle"]
    /\ hreq = [h \in Handlers |-> NoRequest]
    /\ hjob = [h \in Handlers |-> 0]
    /\ hresp = [h \in Handlers |-> 0]
    /\ received = 0

\* config.py, line 27: ENABLE_ANALYTICS is on unless the environment says
\* otherwise
ApiInit == ApiIdle /\ enableAnalytics = TRUE

\* process_image, lines 59-103: the checks, then run_inference(...), which
\* is run_async: the request is submitted under the next submission number.
HandleRequest(h, req) ==
    /\ hpc[h] = "idle"
    /\ received < MaxRequests
    /\ received' = received + 1
    /\ hreq' = [hreq EXCEPT ![h] = req]
    /\ IF Validate(req) # 200
         THEN /\ hpc' = [hpc EXCEPT ![h] = "done"]
              /\ hresp' = [hresp EXCEPT ![h] = Validate(req)]
              /\ UNCHANGED <<hjob, poolVars>>
         ELSE /\ \E j \in Jobs :
                    /\ SubmitJob(j, req.type)
                    /\ hjob' = [hjob EXCEPT ![h] = j]
              /\ hpc' = [hpc EXCEPT ![h] = "wait"]
              /\ UNCHANGED hresp
    /\ UNCHANGED <<enableAnalytics, storeVars, sinkVars>>
    /\ UNCHANGED <<timingVars, postVars, lifeVars, statsVars>>

\* lines 105-132: run_inference has returned or raised. An exception ends
\* in the handler's except clause; else, with analytics enabled,
\* log_inference_run is called with the result's success flag.
HandlerAfterRun(h) ==
    /\ hpc[h] = "wait"
    /\ cstate[hjob[h]] = "returned"
    /\ IF cret[hjob[h]].raised
         THEN /\ hpc' = [hpc EXCEPT ![h] = "done"]
              /\ hresp' = [hresp EXCEPT ![h] = 500]
              /\ UNCHANGED sinkVars
         ELSE IF enableAnalytics
                THEN /\ LogInferenceCall(h, cret[hjob[h]].success)
                     /\ hpc' = [hpc EXCEPT ![h] = "log"]
                     /\ UNCHANGED hresp
                ELSE /\ hpc' = [hpc EXCEPT ![h] = "done"]
                     /\ hresp' = [hresp EXCEPT ![h] = 200]
                     /\ UNCHANGED sinkVars
    /\ UNCHANGED <<hreq, hjob, enableAnalytics, received, storeVars, poolVars>>
    /\ UNCHANGED <<timingVars, postVars, lifeVars, statsVars>>

\* line 125: log_inference_run has returned, return jsonify(result)
HandlerRespond(h) ==
    /\ hpc[h] = "log"
    /\ ppc[h] = "idle"
    /\ hpc' = [hpc EXCEPT ![h] = "done"]
    /\ hresp' = [hresp EXCEPT ![h] = 200]
    /\ UNCHANGED <<hreq, hjob, enableAnalytics, received>>
    /\ UNCHANGED <<storeVars, poolVars, sinkVars>>
    /\ UNCHANGED <<timingVars, postVars, lifeVars, statsVars>>

\* The response is sent; the thread takes the next request.
HandlerReturn(h) ==
    /\ hpc[h] = "done"
    /\ hpc' = [hpc EXCEPT ![h] = "idle"]
    /\ hreq' = [hreq EXCEPT ![h] = NoRequest]
    /\ hjob' = [hjob EXCEPT ![h] = 0]
    /\ hresp' = [hresp EXCEPT ![h] = 0]
    /\ UNCHANGED <<enableAnalytics, received>>
    /\ UNCHANGED <<storeVars, poolVars, sinkVars>>
    /\ UNCHANGED <<timingVars, postVars, lifeVars, statsVars>>

RequestNext ==
    \/ \E h \in Handlers :
          \/ \E req \in Requests : HandleRequest(h, req)
          \/ HandlerAfterRun(h)
          \/ HandlerRespond(h)
          \/ HandlerReturn(h)
          \/ LogInferencePut(h)
          \/ LogModelUsage(h)
    \/ \E j \in Jobs :
          \/ CallerResult(j)
          \/ CallerTimeout(j)
    \/ PoolWork

----------------------------------------------------------------------------
\* run_inference: the timing of a call in which no stage raises

\* The clock is counted in ticks; Granule ticks are 0.01 ms, the precision
\* of round(x * 1000, 2), and FpsUnit / ticks is 1000 / milliseconds.
Granule == 3
FpsUnit == 12

\* round(seconds * 1000, 2): the nearest multiple of 0.01 ms
RoundMs(x) == ((2 * x + Granule) \div (2 * Granule)) * Granule

\* line 65: round(1000 / (infer_time * 1000), 2) if infer_time > 0 else 0
Fps(infer) == IF infer > 0 THEN FpsUnit \div infer ELSE 0

\* lines 56-67: the timing entries and the fps entry of the success dict
TimingResult(t, total) ==
    [timing |-> [decode_ms |-> RoundMs(t.decode),
                 inference_ms |-> RoundMs(t.infer),
                 process_ms |-> RoundMs(t.process),
                 total_ms |-> RoundMs(total)],
     fps |-> Fps(t.infer)]

NoTiming == [timing |-> <<>>, fps |-> 0]

NoRow == [success |-> FALSE]

\* log_inference, db.py lines 134-146: the columns taken from the `timing`
\* argument, each with timing.get(key, 0)
InferenceRow(timing, success) ==
    LET get(key) == IF key \in DOMAIN timing THEN timing[key] ELSE 0
    IN  [inference_time_ms |-> get("inference_ms"),
         total_time_ms |-> get("total_ms"),
         fps |-> get("fps"),
         success |-> success]

TimingInit ==
    /\ tclock = 0
    /\ tpc = 0
    /\ tm = [start |-> 0, mark |-> 0, decode |-> 0, infer |-> 0, process |-> 0]
    /\ tresult = NoTiming
    /\ tsetbacks = 0
    /\ trow = NoRow

\* Time passes
ClockTick ==
    /\ tclock < MaxClock
    /\ tclock' = tclock + 1
    /\ UNCHANGED <<tpc, tm, tresult, tsetbacks, trow>>
    /\ UNCHANGED <<storeVars, poolVars, sinkVars, apiVars, postVars, lifeVars,
                   statsVars>>

\* time.time() is the system's wall clock, which is not monotonic: the
\* system clock is set back while the call runs.
ClockSetBack ==
    /\ tsetbacks < MaxSetBacks
    /\ tpc \in 1..7
    /\ tsetbacks' = tsetbacks + 1
    /\ tclock' = tclock - 1
    /\ UNCHANGED <<tpc, tm, tresult, trow>>
    /\ UNCHANGED <<storeVars, poolVars, sinkVars, apiVars, postVars, lifeVars,
                   statsVars>>

\* run_inference, lines 25-67: the next of its eight time.time() readings;
\* the last one is followed by the return of the success dict.
TimingStep ==
    /\ tpc < 8
    /\ tpc' = tpc + 1
    /\ tm' = CASE tpc = 0 -> [tm EXCEPT !.start = tclock]
               [] tpc \in {1, 3, 5} -> [tm EXCEPT !.mark = tclock]
               [] tpc = 2 -> [tm EXCEPT !.decode = tclock - tm.mark]
               [] tpc = 4 -> [tm EXCEPT !.infer = tclock - tm.mark]
               [] tpc = 6 -> [tm EXCEPT !.process = tclock - tm.mark]
               [] OTHER -> tm
    /\ tresult' = IF tpc = 7 THEN TimingResult(tm, tclock - tm.start)
                   ELSE tresult
    /\ UNCHANGED <<tclock, tsetbacks, trow>>
    /\ UNCHANGED <<storeVars, poolVars, sinkVars, apiVars, postVars, lifeVars,
                   statsVars>>

\* process_image, api.py lines 116-123, with ENABLE_ANALYTICS on:
\* log_inference_run(timing=result.get('timing', {}), success=...), which
\* hands its arguments to log_inference
TimingLog ==
    /\ tpc = 8
    /\ trow = NoRow
    /\ trow' = InferenceRow(tresult.timing, TRUE)
    /\ UNCHANGED <<tclock, tpc, tm, tresult, tsetbacks>>
    /\ UNCHANGED <<storeVars, poolVars, sinkVars, apiVars, postVars, lifeVars,
                   statsVars>>

TimingNext == ClockTick \/ ClockSetBack \/ TimingStep \/ TimingLog

----------------------------------------------------------------------------
\* _process_results (core/inference.py, lines 101-152)

AllTasks == {"detect", "segment", "classify", "pose"}

\* What a model's predict returns is [] or a list of one Results object,
\* whose fields depend on the kind of model behind the task's path: boxes
\* for a detection, segmentation or pose model (with masks or keypoints
\* when something was found), probs for a classification model. A field
\* the model does not produce is None. A box is its class and confidence;
\* probs[i] is the probability of class i - 1.
BoxLists ==
    UNION {[1..n -> [cls : 0..1, conf : 1..MaxProb]] : n \in 0..MaxBoxes}
ProbLists == UNION {[1..n -> 1..MaxProb] : n \in 1..MaxClasses}

ResultObject(hasBoxes, boxes, masks, keypoints, hasProbs, probs) ==
    [hasBoxes |-> hasBoxes, boxes |-> boxes, masks |-> masks,
     keypoints |-> keypoints, hasProbs |-> hasProbs, probs |-> probs]

ModelResults ==
    {ResultObject(TRUE, b, m, k, FALSE, <<>>) :
        b \in BoxLists,
        m \in {"none", "masks"}, k \in {"none", "keypoints"}}
      \cup {ResultObject(FALSE, <<>>, "none", "none", TRUE, p) : p \in ProbLists}

ResultLists == {<<>>} \cup {<<r>> : r \in ModelResults}

\* result.names[id]
ClassName(id) == <<"class", id>>

EmptyDict == [k \in {} |-> 0]

\* np.argsort(probs): an ascending order of the indices. The default kind
\* is not stable, so equal probabilities come in any order.
RECURSIVE ArgSortsOf(_, _)
ArgSortsOf(probs, S) ==
    IF S = {} THEN {<<>>}
    ELSE LET least == {i \in S : \A k \in S : probs[i] <= probs[k]}
         IN UNION {{<<i>> \o rest : rest \in ArgSortsOf(probs, S \ {i})} :
                      i \in least}
ArgSort(probs) == ArgSortsOf(probs, DOMAIN probs)

\* line 142: np.argsort(probs)[-5:][::-1], given the order argsort chose
TopIndices(order) ==
    LET n == Len(order)
        k == IF n < TopK THEN n ELSE TopK
    IN [i \in 1..k |-> order[n + 1 - i]]

\* lines 103-152, given the order argsort chose
ProcessResults(results, task, order) ==
    IF results = <<>>
      THEN [boxes |-> <<>>, masks |-> <<>>, classes |-> <<>>,
            confidences |-> <<>>]
      ELSE
        LET result == results[1]
            common == [classes |-> <<>>, confidences |-> <<>>]
            boxPart ==
                IF task \in {"detect", "segment", "pose"} /\ result.hasBoxes
                  THEN [boxes |-> [i \in DOMAIN result.boxes |-> <<"xyxy", i>>],
                        confidences |->
                            [i \in DOMAIN result.boxes |-> result.boxes[i].conf],
                        classes |->
                            [i \in DOMAIN result.boxes |-> result.boxes[i].cls],
                        class_names |->
                            [i \in DOMAIN result.boxes |->
                                ClassName(result.boxes[i].cls)]]
                  ELSE EmptyDict
            maskPart ==
                IF task = "segment" /\ result.masks # "none"
                  THEN [masks |-> result.masks] ELSE EmptyDict
            posePart ==
                IF task = "pose" /\ result.keypoints # "none"
                  THEN [keypoints |-> result.keypoints] ELSE EmptyDict
            top == TopIndices(order)
            classPart ==
                IF task = "classify" /\ result.hasProbs
                  THEN [predictions |->
                          [i \in DOMAIN top |->
                              [class_id |-> top[i] - 1,
                               confidence |-> result.probs[top[i]],
                               class_name |-> ClassName(top[i] - 1)]]]
                  ELSE EmptyDict
        IN boxPart @@ maskPart @@ posePart @@ classPart @@ common

\* run_inference, lines 40-46: the options of model.predict. imgsz is in
\* pixels and conf in hundredths (0.25 is 25).

DefaultConf == 25

OptionValues == (0 - MaxOption)..MaxOption

\* **kwargs: any of the two keys, with any value
Kwargs == UNION {[D -> OptionValues] : D \in SUBSET {"imgsz", "conf"}}

\* kwargs.get(key, default)
KwargsGet(kwargs, key, default) ==
    IF key \in DOMAIN kwargs THEN kwargs[key] ELSE default

\* the imgsz and conf arguments of the predict call
PredictOptions(kwargs) ==
    [imgsz |-> KwargsGet(kwargs, "imgsz", DefaultImgsz),
     conf |-> KwargsGet(kwargs, "conf", DefaultConf)]

NoPredict == [imgsz |-> 0, conf |-> 0, called |-> FALSE]

OptionsInit ==
    /\ okwargs = <<>>
    /\ opredict = NoPredict

\* run_inference(task, image_bytes, **kwargs) reaches line 40 and calls
\* model.predict
CallPredict(kwargs) ==
    /\ okwargs' = kwargs
    /\ opredict' = PredictOptions(kwargs)
    /\ UNCHANGED <<prCalls, prTask, prResults, prOutput, buildVars, listVars>>
    /\ UNCHANGED <<storeVars, poolVars, sinkVars, apiVars, timingVars,
                   lifeVars, statsVars>>

OptionsNext == \E kwargs \in Kwargs : CallPredict(kwargs)

\* ModelRegistry() (core/model_registry.py, lines 13-33): type.__call__ runs
\* __new__ and then __init__ on what it returned. A step is one read or one
\* write of an attribute.

Builders == 1..MaxBuilders

\* The class as its body leaves it (lines 16-17): no instance, _lock free.
\* `initialized` is "unset" while the instance has no such attribute;
\* `maps` and `model_lock.gen` count the dict and Lock objects assigned to
\* _models and _model_lock, `handles` the entries of the current dict.
FreshClass ==
    [instance |-> FALSE, lock |-> 0, initialized |-> "unset", maps |-> 0,
     handles |-> 0, model_lock |-> [gen |-> 0, owner |-> 0]]

\* line 113, `_registry = ModelRegistry()`, has run while the module was
\* imported
BuiltRegistry ==
    [instance |-> TRUE, lock |-> 0, initialized |-> "true", maps |-> 1,
     handles |-> 0, model_lock |-> [gen |-> 1, owner |-> 0]]

BuildIdle ==
    /\ rpc = [t \in Builders |-> "idle"]
    /\ rheld = [t \in Builders |-> 0]

BuildInit ==
    /\ reg = BuiltRegistry
    /\ rhist = [inits |-> 1, lost |-> FALSE]
    /\ BuildIdle

\* __new__, lines 19-25
RegistryNew(t) ==
    /\ \/ \* line 20: `if cls._instance is None`
          /\ rpc[t] = "idle"
          /\ rpc' = [rpc EXCEPT ![t] = IF reg.instance THEN "init" ELSE "lock"]
          /\ UNCHANGED reg
       \/ \* line 21: `with cls._lock`
          /\ rpc[t] = "lock"
          /\ reg.lock = 0
          /\ reg' = [reg EXCEPT !.lock = t]
          /\ rpc' = [rpc EXCEPT ![t] = "retest"]
       \/ \* line 22: the second test; the lock is released on the way out
          /\ rpc[t] = "retest"
          /\ IF reg.instance
               THEN /\ reg' = [reg EXCEPT !.lock = 0]
                    /\ rpc' = [rpc EXCEPT ![t] = "init"]
               ELSE /\ rpc' = [rpc EXCEPT ![t] = "alloc"]
                    /\ UNCHANGED reg
       \/ \* line 23: `cls._instance = super().__new__(cls)`
          /\ rpc[t] = "alloc"
          /\ reg' = [reg EXCEPT !.instance = TRUE]
          /\ rpc' = [rpc EXCEPT ![t] = "flag"]
       \/ \* line 24: `cls._instance._initialized = False`, end of the block
          /\ rpc[t] = "flag"
          /\ reg' = [reg EXCEPT !.initialized = "false", !.lock = 0]
          /\ rpc' = [rpc EXCEPT ![t] = "init"]
    /\ UNCHANGED <<rheld, rhist>>
    /\ UNCHANGED <<prCalls, prTask, prResults, prOutput, optionVars, listVars>>
    /\ UNCHANGED <<storeVars, poolVars, sinkVars, apiVars, timingVars,
                   lifeVars, statsVars>>

\* line 28: `if not self._initialized`, an AttributeError while the
\* instance has no such attribute
InitTest(initialized) ==
    CASE initialized = "unset" -> "raised"
      [] initialized = "false" -> "map"
      [] initialized = "true" -> "built"

\* __init__, lines 27-33
RegistryInit(t) ==
    /\ \/ \* line 28
          /\ rpc[t] = "init"
          /\ rpc' = [rpc EXCEPT ![t] = InitTest(reg.initialized)]
          /\ rhist' = [rhist EXCEPT !.inits =
                          IF InitTest(reg.initialized) = "map" THEN @ + 1 ELSE @]
          /\ UNCHANGED reg
       \/ \* line 29: `self._models = {}`
          /\ rpc[t] = "map"
          /\ reg' = [reg EXCEPT !.maps = @ + 1, !.handles = 0]
          /\ rhist' = [rhist EXCEPT !.lost = @ \/ reg.handles > 0]
          /\ rpc' = [rpc EXCEPT ![t] = "mlock"]
       \/ \* line 30: `self._model_lock = threading.Lock()`
          /\ rpc[t] = "mlock"
          /\ reg' = [reg EXCEPT !.model_lock =
                        [gen |-> reg.model_lock.gen + 1, owner |-> 0]]
          /\ rpc' = [rpc EXCEPT ![t] = "mark"]
          /\ UNCHANGED rhist
       \/ \* lines 31-33: ..., `self._initialized = True`
          /\ rpc[t] = "mark"
          /\ reg' = [reg EXCEPT !.initialized = "true"]
          /\ rpc' = [rpc EXCEPT ![t] = "built"]
          /\ UNCHANGED rhist
    /\ UNCHANGED rheld
    /\ UNCHANGED <<prCalls, prTask, prResults, prOutput, optionVars, listVars>>
    /\ UNCHANGED <<storeVars, poolVars, sinkVars, apiVars, timingVars,
                   lifeVars, statsVars>>

\* get_model, lines 47-52, called by a thread on the instance it was given:
\* it takes the Lock object _model_lock names at that moment, and releases
\* that object after its load has put a handle into what _models names then.
RegistryGet(t) ==
    /\ \/ /\ rpc[t] = "built"
          /\ reg.model_lock.gen > 0
          /\ reg.model_lock.owner = 0
          /\ reg' = [reg EXCEPT !.model_lock.owner = t]
          /\ rheld' = [rheld EXCEPT ![t] = reg.model_lock.gen]
          /\ rpc' = [rpc EXCEPT ![t] = "inside"]
       \/ /\ rpc[t] = "inside"
          /\ reg' = [reg EXCEPT
                        !.handles = 1,
                        !.model_lock.owner =
                            IF reg.model_lock.gen = rheld[t] THEN 0 ELSE @]
          /\ rheld' = [rheld EXCEPT ![t] = 0]
          /\ rpc' = [rpc EXCEPT ![t] = "used"]
    /\ UNCHANGED rhist
    /\ UNCHANGED <<prCalls, prTask, prResults, prOutput, optionVars, listVars>>
    /\ UNCHANGED <<storeVars, poolVars, sinkVars, apiVars, timingVars,
                   lifeVars, statsVars>>

BuildNext ==
    \E t \in Builders :
        \/ RegistryNew(t)
        \/ RegistryInit(t)
        \/ RegistryGet(t)

PostInit ==
    /\ prCalls = 0
    /\ prTask = "none"
    /\ prResults = <<>>
    /\ prOutput = EmptyDict
    /\ OptionsInit
    /\ BuildInit
    /\ lsIdx = 0
    /\ lsOut = <<>>

\* One call _process_results(results, task)
CallProcessResults(results, task) ==
    /\ prCalls = 0
    /\ prCalls' = 1
    /\ prTask' = task
    /\ prResults' = results
    /\ \E order \in (IF results = <<>> THEN {<<>>} ELSE ArgSort(results[1].probs)) :
          prOutput' = ProcessResults(results, task, order)
    /\ UNCHANGED <<optionVars, buildVars, listVars>>
    /\ UNCHANGED <<storeVars, poolVars, sinkVars, apiVars, timingVars,
                   lifeVars, statsVars>>

PostNext == \E results \in ResultLists, task \in AllTasks :
                CallProcessResults(results, task)

----------------------------------------------------------------------------
\* get_analytics_db / shutdown_analytics_db (core/db.py, lines 243-260)

\* Threads that call the two functions
LifeThreads == {"a1", "a2"}
Instances == 1..MaxInstances

\* services/analytics.py, line 110: the module-level AnalyticsService()
\* has called get_analytics_db() while the modules were imported, so one
\* object exists and its writer thread runs.
LifeInit ==
    /\ analyticsDb = 1
    /\ created = 1
    /\ dbWriter = [i \in Instances |-> IF i = 1 THEN "running" ELSE "none"]
    /\ dbStop = [i \in Instances |-> FALSE]
    /\ lpc = [t \in LifeThreads |-> "idle"]
    /\ llocal = [t \in LifeThreads |-> 0]
    /\ lgot = [t \in LifeThreads |-> 0]

\* get_analytics_db, line 250: `if _analytics_db is None`
GetDbTest(t) ==
    /\ lpc[t] = "idle"
    /\ lpc' = [lpc EXCEPT ![t] =
                  IF analyticsDb = 0 THEN "construct" ELSE "return"]
    /\ UNCHANGED <<analyticsDb, created, dbWriter, dbStop, llocal, lgot>>
    /\ UNCHANGED <<storeVars, poolVars, sinkVars, apiVars, timingVars,
                   postVars, statsVars>>

\* line 251: `_analytics_db = AnalyticsDB()`; __init__ starts the object's
\* writer thread (_start_background_writer, lines 61-64).
GetDbConstruct(t) ==
    /\ lpc[t] = "construct"
    /\ created < MaxInstances
    /\ created' = created + 1
    /\ dbWriter' = [dbWriter EXCEPT ![created + 1] = "running"]
    /\ analyticsDb' = created + 1
    /\ lpc' = [lpc EXCEPT ![t] = "return"]
    /\ UNCHANGED <<dbStop, llocal, lgot>>
    /\ UNCHANGED <<storeVars, poolVars, sinkVars, apiVars, timingVars,
                   postVars, statsVars>>

\* line 252: `return _analytics_db`
GetDbReturn(t) ==
    /\ lpc[t] = "return"
    /\ lgot' = [lgot EXCEPT ![t] = analyticsDb]
    /\ lpc' = [lpc EXCEPT ![t] = "idle"]
    /\ UNCHANGED <<analyticsDb, created, dbWriter, dbStop, llocal>>
    /\ UNCHANGED <<storeVars, poolVars, sinkVars, apiVars, timingVars,
                   postVars, statsVars>>

\* shutdown_analytics_db, line 258: `if _analytics_db:`
ShutdownDbTest(t) ==
    /\ lpc[t] = "idle"
    /\ analyticsDb # 0
    /\ lpc' = [lpc EXCEPT ![t] = "shutdown"]
    /\ UNCHANGED <<analyticsDb, created, dbWriter, dbStop, llocal, lgot>>
    /\ UNCHANGED <<storeVars, poolVars, sinkVars, apiVars, timingVars,
                   postVars, statsVars>>

\* line 259: `_analytics_db.shutdown()` reads the global again (None by now
\* raises AttributeError), sets the object's stop event and joins its
\* writer.
ShutdownDbCall(t) ==
    /\ lpc[t] = "shutdown"
    /\ IF analyticsDb = 0
         THEN /\ lpc' = [lpc EXCEPT ![t] = "idle"]
              /\ UNCHANGED <<dbStop, llocal>>
         ELSE /\ dbStop' = [dbStop EXCEPT ![analyticsDb] = TRUE]
              /\ llocal' = [llocal EXCEPT ![t] = analyticsDb]
              /\ lpc' = [lpc EXCEPT ![t] = "join"]
    /\ UNCHANGED <<analyticsDb, created, dbWriter, lgot>>
    /\ UNCHANGED <<storeVars, poolVars, sinkVars, apiVars, timingVars,
                   postVars, statsVars>>

\* lines 240 and 260: join(timeout=5) returns when the writer has exited or
\* after five seconds; then `_analytics_db = None`.
ShutdownDbJoin(t) ==
    /\ lpc[t] = "join"
    /\ analyticsDb' = 0
    /\ llocal' = [llocal EXCEPT ![t] = 0]
    /\ lpc' = [lpc EXCEPT ![t] = "idle"]
    /\ UNCHANGED <<created, dbWriter, dbStop, lgot>>
    /\ UNCHANGED <<storeVars, poolVars, sinkVars, apiVars, timingVars,
                   postVars, statsVars>>

\* _background_writer, line 68: the writer of object i sees its stop event
\* set and leaves its loop.
DbWriterExit(i) ==
    /\ dbWriter[i] = "running"
    /\ dbStop[i]
    /\ dbWriter' = [dbWriter EXCEPT ![i] = "exited"]
    /\ UNCHANGED <<analyticsDb, created, dbStop, lpc, llocal, lgot>>
    /\ UNCHANGED <<storeVars, poolVars, sinkVars, apiVars, timingVars,
                   postVars, statsVars>>

LifeNext ==
    \/ \E t \in LifeThreads :
          \/ GetDbTest(t)
          \/ GetDbConstruct(t)
          \/ GetDbReturn(t)
          \/ ShutdownDbTest(t)
          \/ ShutdownDbCall(t)
          \/ ShutdownDbJoin(t)
    \/ \E i \in Instances : DbWriterExit(i)

----------------------------------------------------------------------------
\* AnalyticsDB.get_stats (core/db.py)
\*
\* A row of inference_runs carries the columns get_stats reads. Rounded
\* results are integers in hundredths (83.33 is 8333); an average that is
\* not rounded is a fraction in lowest terms.

StatTasks == {"detect", "classify"}

StatRows ==
    [task : StatTasks, success : BOOLEAN, fps : 0..MaxFps,
     inference_time_ms : 0..MaxMs]

NoStats == [total_runs |-> -1]

RECURSIVE Gcd(_, _)
Gcd(a, b) == IF b = 0 THEN a ELSE Gcd(b, a % b)

Frac(num, den) ==
    [num |-> num \div Gcd(num, den), den |-> den \div Gcd(num, den)]

Zero == Frac(0, 1)

SqlNull == [num |-> 0, den |-> 0]

RECURSIVE SumFps(_)
SumFps(rs) == IF rs = <<>> THEN 0 ELSE Head(rs).fps + SumFps(Tail(rs))

RECURSIVE SumMs(_)
SumMs(rs) ==
    IF rs = <<>> THEN 0 ELSE Head(rs).inference_time_ms + SumMs(Tail(rs))

\* SELECT AVG(fps) over the selected rows: NULL when there is none
AvgFps(rs) == IF rs = <<>> THEN SqlNull ELSE Frac(SumFps(rs), Len(rs))

AvgMs(rs) == IF rs = <<>> THEN SqlNull ELSE Frac(SumMs(rs), Len(rs))

\* `avg or 0`: None and 0.0 both give 0
OrZero(a) == IF a = SqlNull \/ a.num = 0 THEN Zero ELSE a

\* round(x, 2) of x = num/den, in hundredths; a tie goes to the even
\* neighbour
Round2(num, den) ==
    LET q == (100 * num) \div den
        r == (100 * num) % den
    IN  IF 2 * r < den THEN q
        ELSE IF 2 * r > den THEN q + 1
        ELSE IF q % 2 = 0 THEN q ELSE q + 1

\* a WHERE clause that lets the failed rows through
SuccessfulAny(rs) == rs

\* WHERE success = 1
Successful(rs) == SelectSeq(rs, LAMBDA r : r.success)

\* WHERE success = 1 AND fps > 0
SuccessfulWithFps(rs) == SelectSeq(rs, LAMBDA r : r.success /\ r.fps > 0)

\* WHERE success = 1 GROUP BY task: the rows of one group
OfTask(rs, t) == SelectSeq(rs, LAMBDA r : r.success /\ r.task = t)

\* the task breakdown: one entry per task that has a successful row
TaskStats(rs) ==
    [t \in {t \in StatTasks : OfTask(rs, t) # <<>>} |->
        [count |-> Len(OfTask(rs, t)),
         avg_fps |-> OrZero(AvgFps(OfTask(rs, t)))]]

\* lines 193 and 218-224: the dict built from what the queries returned
StatsDict(total_runs, success_runs, avg_fps, avg_inference_time, task_stats) ==
    [total_runs |-> total_runs,
     success_rate |-> IF total_runs > 0
                        THEN Round2(success_runs * 100, total_runs)
                        ELSE 0,
     avg_fps |-> Round2(avg_fps.num, avg_fps.den),
     avg_inference_time_ms |->
         Round2(avg_inference_time.num, avg_inference_time.den),
     task_stats |-> task_stats]

\* the dict returned from the try block when every query reads the same
\* table
GetStats(rs) ==
    StatsDict(Len(rs), Len(Successful(rs)),
              OrZero(AvgFps(SuccessfulWithFps(rs))),
              OrZero(AvgMs(Successful(rs))), TaskStats(rs))

\* the dict returned from the except clause
StatsOnError ==
    [total_runs |-> 0, success_rate |-> 0, avg_fps |-> 0,
     avg_inference_time_ms |-> 0, task_stats |-> <<>>]

\* AnalyticsDB.get_recent_runs. A row is its id, given by AUTOINCREMENT, and
\* its timestamp, CURRENT_TIMESTAMP at the INSERT, which has a resolution
\* of one second.

NoRecent == <<[id |-> 0, timestamp |-> 0]>>

RecentInit ==
    /\ rcRows = <<>>
    /\ rcNow = 0
    /\ rcLimit = 0
    /\ rcOut = NoRecent

\* the orders ORDER BY timestamp DESC allows: rows with the same timestamp
\* come in any order
OrdersByTimestamp(rs) ==
    {p \in [1..Len(rs) -> 1..Len(rs)] :
        /\ \A i, j \in 1..Len(rs) : i # j => p[i] # p[j]
        /\ \A i, j \in 1..Len(rs) :
              i < j => rs[p[i]].timestamp >= rs[p[j]].timestamp}

\* LIMIT ?: the first rows of the ordered result
Limited(rs, p, limit) ==
    [i \in 1..(IF limit < Len(rs) THEN limit ELSE Len(rs)) |-> rs[p[i]]]

\* _execute_batch_write, lines 98-109: an INSERT gives the row the next
\* id and the current second
RecentInsert ==
    /\ rcOut = NoRecent
    /\ Len(rcRows) < MaxRecent
    /\ rcRows' = Append(rcRows, [id |-> Len(rcRows) + 1, timestamp |-> rcNow])
    /\ UNCHANGED <<rcNow, rcLimit, rcOut>>
    /\ UNCHANGED <<stRows, stOut, stFailed, spc, sread>>
    /\ UNCHANGED outsideStats

\* a second passes
RecentTick ==
    /\ rcOut = NoRecent
    /\ rcNow < MaxSecond
    /\ rcNow' = rcNow + 1
    /\ UNCHANGED <<rcRows, rcLimit, rcOut>>
    /\ UNCHANGED <<stRows, stOut, stFailed, spc, sread>>
    /\ UNCHANGED outsideStats

\* get_recent_runs, lines 170-182: the query's rows, or [] when it raises
GetRecentRuns(limit) ==
    /\ rcOut = NoRecent
    /\ rcLimit' = limit
    /\ \/ \E p \in OrdersByTimestamp(rcRows) :
             rcOut' = Limited(rcRows, p, limit)
       \/ rcOut' = <<>>
    /\ UNCHANGED <<rcRows, rcNow>>
    /\ UNCHANGED <<stRows, stOut, stFailed, spc, sread>>
    /\ UNCHANGED outsideStats

RecentNext ==
    \/ RecentInsert
    \/ RecentTick
    \/ \E limit \in 0..MaxLimit : GetRecentRuns(limit)

\* nothing read yet
NoRead ==
    [total_runs |-> 0, success_runs |-> 0, avg_fps |-> Zero,
     avg_inference_time |-> Zero]

StatsInit ==
    /\ stRows = <<>>
    /\ stOut = NoStats
    /\ stFailed = FALSE
    /\ spc = "total"
    /\ sread = NoRead
    /\ RecentInit

\* _execute_batch_write: one more row of inference_runs is committed
InsertRun(row) ==
    /\ stOut = NoStats
    /\ Len(stRows) < MaxRows
    /\ stRows' = Append(stRows, row)
    /\ UNCHANGED <<stOut, stFailed, spc, sread, recentVars>>
    /\ UNCHANGED <<storeVars, poolVars, sinkVars, apiVars, timingVars,
                   postVars, lifeVars>>

\* get_stats: the queries succeed, or one of them raises
CallGetStats ==
    /\ stOut = NoStats
    /\ \E ok \in BOOLEAN :
          /\ stOut' = IF ok THEN GetStats(stRows) ELSE StatsOnError
          /\ stFailed' = ~ok
    /\ UNCHANGED <<stRows, spc, sread, recentVars>>
    /\ UNCHANGED <<storeVars, poolVars, sinkVars, apiVars, timingVars,
                   postVars, lifeVars>>

StatsNext ==
    \/ \E row \in StatRows : InsertRun(row)
    \/ CallGetStats

\* get_stats beside the writer thread. The connection is opened with
\* sqlite3.connect's defaults and no BEGIN is issued, so each SELECT is a
\* read transaction of its own and sees the commits made before it.

\* the rows the writer commits here: of any task, successful or not
RaceRows == {r \in StatRows : r.fps = MaxFps /\ r.inference_time_ms = MaxMs}

Batches == UNION {[1..n -> RaceRows] : n \in 1..MaxRows}

\* _execute_batch_write, line 121: conn.commit() makes the whole batch
\* visible at once
CommitBatch(b) ==
    /\ spc # "done"
    /\ Len(stRows) + Len(b) <= MaxRows
    /\ stRows' = stRows \o b
    /\ UNCHANGED <<stOut, stFailed, spc, sread, recentVars>>
    /\ UNCHANGED outsideStats

\* line 189: SELECT COUNT(*) FROM inference_runs
QueryTotal ==
    /\ spc = "total"
    /\ stOut = NoStats
    /\ sread' = [sread EXCEPT !.total_runs = Len(stRows)]
    /\ spc' = "success"
    /\ UNCHANGED <<stRows, stOut, stFailed, recentVars>>
    /\ UNCHANGED outsideStats

\* line 192: SELECT COUNT(*) ... WHERE success = 1
QuerySuccess ==
    /\ spc = "success"
    /\ sread' = [sread EXCEPT !.success_runs = Len(Successful(stRows))]
    /\ spc' = "fps"
    /\ UNCHANGED <<stRows, stOut, stFailed, recentVars>>
    /\ UNCHANGED outsideStats

\* lines 196-197: SELECT AVG(fps) ... WHERE success = 1 AND fps > 0
QueryFps ==
    /\ spc = "fps"
    /\ sread' = [sread EXCEPT
                    !.avg_fps = OrZero(AvgFps(SuccessfulWithFps(stRows)))]
    /\ spc' = "time"
    /\ UNCHANGED <<stRows, stOut, stFailed, recentVars>>
    /\ UNCHANGED outsideStats

\* lines 200-201: SELECT AVG(inference_time_ms) ... WHERE success = 1
QueryTime ==
    /\ spc = "time"
    /\ sread' = [sread EXCEPT
                    !.avg_inference_time = OrZero(AvgMs(Successful(stRows)))]
    /\ spc' = "tasks"
    /\ UNCHANGED <<stRows, stOut, stFailed, recentVars>>
    /\ UNCHANGED outsideStats

\* lines 204-224: the GROUP BY query, then the dict is returned
QueryTasks ==
    /\ spc = "tasks"
    /\ stOut' = StatsDict(sread.total_runs, sread.success_runs, sread.avg_fps,
                          sread.avg_inference_time, TaskStats(stRows))
    /\ spc' = "done"
    /\ UNCHANGED <<stRows, stFailed, sread, recentVars>>
    /\ UNCHANGED outsideStats

\* lines 226-234: a query raises, the except clause returns the zeros
QueryRaise ==
    /\ spc \notin {"done"}
    /\ stOut = NoStats
    /\ stOut' = StatsOnError
    /\ stFailed' = TRUE
    /\ spc' = "done"
    /\ UNCHANGED <<stRows, sread, recentVars>>
    /\ UNCHANGED outsideStats

StatsRaceNext ==
    \/ \E b \in Batches : CommitBatch(b)
    \/ QueryTotal
    \/ QuerySuccess
    \/ QueryFps
    \/ QueryTime
    \/ QueryTasks
    \/ QueryRaise

----------------------------------------------------------------------------
\* The other parts of the program at rest
RestInit == ApiInit /\ TimingInit /\ PostInit /\ LifeInit /\ StatsInit

Init == StoreInit /\ PoolInit /\ SinkInit /\ RestInit

StoreSpec == Init /\ [][StoreNext]_vars

ListSpec == Init /\ [][ListNext]_vars

\* The engine serves requests once the application is up. Its runs start
\* where preload_models has returned: each task of its list was loaded once,
\* with or without success, in the order of the list.
Warmed(L) ==
    /\ models = [k \in Tasks |->
                   IF k \in L
                     THEN Cardinality({i \in DOMAIN PreloadTasks :
                             PreloadTasks[i] \in L /\ \E n \in DOMAIN PreloadTasks :
                                 n >= i /\ PreloadTasks[n] = k})
                     ELSE 0]
    /\ nextHandle = Cardinality(L)
    /\ preIdx = Len(PreloadTasks)
    /\ preLog = [i \in DOMAIN PreloadTasks |->
                   [task |-> PreloadTasks[i],
                    got |-> IF PreloadTasks[i] \in L THEN "handle" ELSE "none",
                    warm |-> IF PreloadTasks[i] \in L THEN "ok" ELSE "skipped"]]
    /\ preEnd = "returned"
    /\ loads = [k \in Tasks |-> 1]
    /\ okLoads = [k \in Tasks |-> IF k \in L THEN 1 ELSE 0]
    /\ firstLoads = [k \in Tasks |-> 1]
    /\ firstFailed = [k \in Tasks |-> IF k \in L THEN 0 ELSE 1]
    /\ firstRes = [k \in Tasks |->
                     {IF k \in L THEN RetHandle(models[k]) ELSE RetNone}]

\* No thread is inside get_model
StoreIdle ==
    /\ modelLock = NoThread
    /\ gpc = [t \in Threads |-> "idle"]
    /\ gtask = [t \in Threads |-> "detect"]
    /\ gret = [t \in Threads |-> RetPending]
    /\ gpath = [t \in Threads |-> "none"]
    /\ gcalls = 0
    /\ gen = [t \in Threads |-> 0]
    /\ didLoad = [t \in Threads |-> FALSE]

\* An engine built with any argument on any host, detect warmed up
PoolSizedStart ==
    /\ Warmed({"detect"})
    /\ StoreIdle
    /\ PoolIdle
    /\ \E configured \in 0..MaxConfigured, cpus \in 0..MaxCpus :
          engine = Engine(configured, cpus)
    /\ SinkInit
    /\ RestInit

PoolSizedSpec == PoolSizedStart /\ [][PoolSizedNext]_vars

\* Threads calling ModelRegistry() on the class as defined, before its first
\* instance exists
BuildStart ==
    /\ StoreInit
    /\ PoolInit
    /\ SinkInit
    /\ ApiInit
    /\ TimingInit
    /\ prCalls = 0
    /\ prTask = "none"
    /\ prResults = <<>>
    /\ prOutput = EmptyDict
    /\ OptionsInit
    /\ reg = FreshClass
    /\ rhist = [inits |-> 0, lost |-> FALSE]
    /\ BuildIdle
    /\ lsIdx = 0
    /\ lsOut = <<>>
    /\ LifeInit
    /\ StatsInit

BuildSpec == BuildStart /\ [][BuildNext]_vars

\* InferenceEngine(max_workers=1): the second submission waits in the queue
\* while the worker runs the first. The worker takes its steps.
PoolSingleStart == PoolSizedStart /\ engine = Engine(1, NoValue)

PoolSingleFairSpec ==
    PoolSingleStart /\ [][PoolSizedNext]_vars /\ WF_vars(PoolWork)

PoolStart ==
    /\ \E L \in SUBSET Tasks : Warmed(L)
    /\ StoreIdle
    /\ PoolInit
    /\ SinkInit
    /\ RestInit

PoolSpec == PoolStart /\ [][PoolNext]_vars

\* Threads that can run do run: a worker with a work item takes its next
\* step, and every stage of run_inference ends. The runs start where the
\* warm-up loaded one task and failed to load the other one.
PoolFairStart == PoolStart /\ Warmed({"detect"})

PoolFairSpec == PoolFairStart /\ [][PoolNext]_vars /\ WF_vars(PoolWork)

\* The request threads with the pool's workers, once the warm-up is over;
\* ENABLE_ANALYTICS is on or off for the whole run.
RequestStart ==
    /\ Warmed({"detect"})
    /\ StoreIdle
    /\ PoolInit
    /\ SinkInit
    /\ ApiIdle
    /\ enableAnalytics \in BOOLEAN
    /\ TimingInit
    /\ PostInit
    /\ LifeInit
    /\ StatsInit

RequestSpec == RequestStart /\ [][RequestNext]_vars

\* run_inference called in a thread with an application context, once the
\* warm-up is over
PipelineSpec == PoolStart /\ [][PipelineNext]_vars

SinkSpec == Init /\ [][SinkNext]_vars

\* The writer while nobody calls shutdown. It is a thread of its own and
\* every one of its steps ends: the get returns within a second, the drain
\* never blocks, the transaction returns.
SinkFairSpec == Init /\ [][SinkFairNext]_vars /\ WF_vars(WriterWork)

\* One call of run_inference in which every stage succeeds
TimingSpec == Init /\ [][TimingNext]_vars

\* Threads calling get_analytics_db and shutdown_analytics_db
LifeSpec == Init /\ [][LifeNext]_vars

\* get_stats called on a table of persisted rows
StatsSpec == Init /\ [][StatsNext]_vars

\* run_inference calls with their options
OptionsSpec == Init /\ [][OptionsNext]_vars

\* get_recent_runs called on a table of persisted rows
RecentSpec == Init /\ [][RecentNext]_vars

\* get_stats, query by query, while the writer commits batches
StatsRaceSpec == Init /\ [][StatsRaceNext]_vars

\* One call of _process_results
PostSpec == Init /\ [][PostNext]_vars

----------------------------------------------------------------------------
----------------------------------------------------------------------------
\* Telemetry queue

\* C2: in every reachable state the write queue holds at most the
\* configured capacity of items.
C2_QueueWithinCapacity == Len(writeQueue) <= QueueLimit

\* C3: when the queue already holds the capacity of items, an enqueue
\* drops the new item and leaves the queue as it is: no step taken with the
\* queue at or above capacity makes the queue longer.
C3_DropAtCapacity ==
    [][Len(writeQueue) >= QueueLimit => Len(writeQueue') <= Len(writeQueue)]_vars

\* The queue is drained: nothing is queued and the writer holds no batch.
Drained == writeQueue = <<>> /\ writes = <<>>

\* C4 (as stated): once the queue has been drained, items dropped at
\* enqueue plus rows persisted equal the number of enqueue calls.
C4_DroppedPlusPersisted ==
    Drained => dropped + Len(rows) = enqCalls

\* C4 (amended): once the queue has been drained, items dropped at enqueue
\* plus rows persisted plus items of the batches discarded after a failed
\* write transaction equal the number of enqueue calls.
C4_DroppedPersistedDiscarded ==
    Drained => dropped + Len(rows) + Cardinality(discarded) = enqCalls

\* All three ways out of the queue have been taken and the queue is drained.
C4_Witness ==
    /\ Drained
    /\ dropped > 0
    /\ rows # <<>>
    /\ discarded # {}

\* The number of places an accepted item is in
InSeq(id, q) == Cardinality({i \in DOMAIN q : q[i].id = id})
Places(id) ==
    InSeq(id, writeQueue) + InSeq(id, writes) + InSeq(id, rows)
        + (IF id \in discarded THEN 1 ELSE 0)

\* C5 (as stated): every item accepted into the queue (the inference-run
\* records among them) is written exactly once: while it is not yet a row it is still queued or in the writer's
\* batch, and it is never a row twice.
C5_AcceptedIsQueuedOrWritten ==
    \A id \in accepted :
        /\ InSeq(id, rows) <= 1
        /\ InSeq(id, rows) = 1 \/ InSeq(id, writeQueue) + InSeq(id, writes) >= 1

IsPrefix(a, b) == Len(a) <= Len(b) /\ SubSeq(b, 1, Len(a)) = a

\* C5 (amended): every accepted record is in exactly one place: queued, in
\* the writer's batch, a row, or discarded with a batch whose transaction
\* failed; so it is written at most once, and is lost only with a failed
\* batch or by staying queued after the writer stopped. The rows only grow
\* at the end: no row is updated or deleted.
C5_WrittenAtMostOnceAppendOnly ==
    /\ [](\A id \in accepted : Places(id) = 1)
    /\ [][IsPrefix(rows, rows')]_vars

\* A record was written, another one was lost with a failed batch.
C5_Witness ==
    /\ \E i \in DOMAIN rows : rows[i].table = "inference_runs"
    /\ discarded # {}
    /\ Len(rows) >= 2

----------------------------------------------------------------------------
\* Worker pool

\* A well-formed result dict: success with a payload and no error, or
\* failure with an error and no payload; the task in both.
WellFormed(r) ==
    /\ ~r.raised
    /\ "task" \in r.keys
    /\ r.success <=> "predictions" \in r.keys
    /\ ~r.success <=> "error" \in r.keys

\* C6: a caller whose wait ran out gets {success: false, error: timeout,
\* task} whatever the worker is doing, the pool refuses a submission only
\* after shutdown has begun, and once a wait has run out every submission
\* the pool holds is still completed.
C6_TimeoutThenPoolStillServes ==
    /\ [](\A j \in Jobs :
             /\ (cstate[j] = "waiting" /\ jstate[j] # "done")
                   => ENABLED CallerTimeout(j)
             /\ ctimedOut[j] =>
                   /\ cret[j].error = "Inference timeout"
                   /\ cret[j].task = jtask[j]
                   /\ ~cret[j].success /\ WellFormed(cret[j])
             /\ jstate[j] = "rejected" => jafter[j])
    /\ \A j \in Jobs :
          ((\E i \in Jobs : ctimedOut[i]) /\ j \in Pending) ~> jstate[j] = "done"

\* A wait ran out, and a submission made after it was run and its caller
\* got its result.
C6_Witness ==
    \E i, j \in Jobs :
        /\ i < j
        /\ ctimedOut[i] /\ jstate[i] # "done"
        /\ cstate[j] = "returned" /\ cret[j].from = j /\ cret[j].success

\* C7: a submission whose caller timed out is run to completion exactly
\* once, and the result of that run is given to no caller.
C7_TimedOutRunsOnceResultDiscarded ==
    /\ [](\A j \in Jobs :
             /\ runs[j] <= 1
             /\ ctimedOut[j] => \A c \in Jobs : cret[c].from # j)
    /\ \A j \in Jobs : ctimedOut[j] ~> (jstate[j] = "done" /\ runs[j] = 1)

\* The caller of a submission timed out while it was still queued, and the
\* submission was run afterwards.
C7_Witness ==
    \E j \in Jobs :
        /\ ctimedOut[j]
        /\ jstate[j] = "done" /\ runs[j] = 1
        /\ future[j].success

C9_SubmitAlwaysReturnsResult ==
    \A j \in Jobs : cstate[j] = "returned" => WellFormed(cret[j])

\* C10: a submission made after shutdown began is refused and never run,
\* and shutdown returns only when every submission the pool had accepted
\* has been run to completion.
C10_ShutdownDrainsAndRefuses ==
    /\ \A j \in Jobs : jafter[j] => jstate[j] = "rejected" /\ runs[j] = 0
    /\ espc = "returned" => Pending = {} /\ \A j \in atShutdown : runs[j] = 1

\* Shutdown has returned; a submission was queued and another one running
\* when it began.
C10_Witness ==
    /\ espc = "returned"
    /\ Cardinality(atShutdown) >= 2
    /\ \E j \in atShutdown : future[j].success

\* C11: a run whose image no decoder could decode returns {success: false}
\* with the decode error, and no later stage was entered: get_model was not
\* called, predict and _process_results did not run.
C11_DecodeFailureStopsPipeline ==
    \A j \in Jobs :
        jfault[j] = "decode" =>
            /\ jstate[j] = "done"
            /\ ~future[j].success /\ WellFormed(future[j])
            /\ future[j].error = "Failed to decode image"
            /\ jstages[j] = {"decode"}

\* One run ended at the decode stage, another one went on to get_model.
C11_Witness ==
    \E i, j \in Jobs :
        /\ jfault[i] = "decode" /\ jstate[i] = "done"
        /\ "lookup" \in jstages[j]

\* C12: a run whose get_model call returned no model returns
\* {success: false, task, error} naming the missing model and raises
\* nothing, predict is not attempted, and the thread that ran it is free
\* for the next run.
C12_NoModelIsResultError ==
    /\ \A j \in Jobs :
          jfault[j] = "nomodel" =>
              /\ jstate[j] = "done"
              /\ ~future[j].success /\ WellFormed(future[j])
              /\ future[j].task = jtask[j]
              /\ future[j].error = "No model available"
              /\ jstages[j] = {"decode", "lookup"}
    /\ \A t \in PipelineThreads :
          (wjob[t] # 0 /\ gpc[t] = "done" /\ gret[t].kind = "none")
              => jstate[wjob[t]] = "running"
    /\ \A t \in PipelineThreads : wjob[t] = 0 => gpc[t] = "idle"

\* A run found no model (the load and its fallback failed), and the same
\* thread completed a later run with success.
C12_Witness ==
    \E i, j \in Jobs :
        /\ i < j
        /\ jfault[i] = "nomodel" /\ jstate[i] = "done"
        /\ jstate[j] = "done" /\ future[j].success

\* A request that fails validation as the interface states it
FailsValidation(req) ==
    \/ ~req.hasImage
    \/ req.filename = ""
    \/ req.size > MaxUpload
    \/ req.type \notin {"detect", "segment", "classify", "pose"}

\* C13: a request that fails validation gets an error response and never
\* reaches the pipeline: the step that receives it changes nothing in the
\* pool, the registry and the write queue, and its thread neither holds a
\* submission nor is inside log_inference_run.
C13_InvalidRequestTouchesNothing ==
    /\ [](\A h \in Handlers :
             FailsValidation(hreq[h]) /\ hpc[h] # "idle" =>
                 /\ hpc[h] = "done"
                 /\ hresp[h] \in {400, 413}
                 /\ hjob[h] = 0
                 /\ ppc[h] = "idle")
    /\ [][\A h \in Handlers :
             hpc[h] = "idle" /\ hpc'[h] # "idle" /\ FailsValidation(hreq'[h])
                 => UNCHANGED <<poolVars, storeVars, sinkVars>>]_vars

\* A request was rejected with 413 while another thread's valid request is in the pool.
C13_Witness ==
    \E h, g \in Handlers :
        /\ hpc[h] = "done" /\ hresp[h] = 413
        /\ hpc[g] = "wait" /\ jstate[hjob[g]] = "running"

----------------------------------------------------------------------------
\* Results

\* C14: in every success result the timing components are non-negative,
\* total >= infer >= 0, and total is at least the sum of the stage times.
C14_TimingsOrdered ==
    tpc = 8 =>
        LET t == tresult.timing IN
          /\ t.decode_ms >= 0 /\ t.inference_ms >= 0
          /\ t.process_ms >= 0 /\ t.total_ms >= 0
          /\ t.total_ms >= t.inference_ms
          /\ t.total_ms >= t.decode_ms + t.inference_ms + t.process_ms

\* C17: the timing breakdown of every success result has the fields
\* inference_ms, total_ms and fps.
C17_TimingHasFps ==
    tpc = 8 => {"inference_ms", "total_ms", "fps"} \subseteq DOMAIN tresult.timing

\* The classes by descending probability, the lower id first among equals
RECURSIVE RankedOf(_, _)
RankedOf(probs, S) ==
    IF S = {} THEN <<>>
    ELSE LET best == CHOOSE i \in S :
                         \A k \in S : \/ probs[i] > probs[k]
                                       \/ (probs[i] = probs[k] /\ i <= k)
         IN <<best>> \o RankedOf(probs, S \ {best})

\* C15: for task classify the payload holds exactly the 5 classes of
\* highest probability in descending order, the lower class id first among
\* equal probabilities (also for the last place), each with id, confidence
\* and name. Stated for the models that have five classes or more.
C15_TopFiveLowerIdFirst ==
    (prCalls = 1 /\ prTask = "classify" /\ prResults # <<>>
        /\ prResults[1].hasProbs /\ Len(prResults[1].probs) >= 5) =>
        LET probs == prResults[1].probs
            ranked == RankedOf(probs, DOMAIN probs)
        IN /\ "predictions" \in DOMAIN prOutput
           /\ Len(prOutput.predictions) = 5
           /\ \A i \in 1..5 :
                 /\ prOutput.predictions[i].class_id = ranked[i] - 1
                 /\ prOutput.predictions[i].confidence = probs[ranked[i]]
                 /\ prOutput.predictions[i].class_name = ClassName(ranked[i] - 1)

\* C16: for task detect, segment or pose the payload has the keys boxes,
\* classes and confidences, and the three lists have the same length, also
\* when the model returned no result or no boxes.
C16_BoxListsPresentSameLength ==
    (prCalls = 1 /\ prTask \in {"detect", "segment", "pose"}) =>
        /\ {"boxes", "classes", "confidences"} \subseteq DOMAIN prOutput
        /\ Len(prOutput.boxes) = Len(prOutput.classes)
        /\ Len(prOutput.classes) = Len(prOutput.confidences)

----------------------------------------------------------------------------
\* Telemetry lifecycle

\* C18: at any time at most one writer thread runs its loop, also when
\* get_analytics_db is called by several threads at once while there is no
\* instance, and when shutdown_analytics_db is followed by a new
\* get_analytics_db. A writer whose stop event is set is on its way out
\* and is not counted.
C18_AtMostOneWriter ==
    Cardinality({i \in Instances : dbWriter[i] = "running" /\ ~dbStop[i]}) <= 1

\* C19: shutdown sets the stop event, after which the writer starts no new
\* cycle; its join returns in bounded time; and the items queued when
\* shutdown was called get one batch attempt before the writer ends: the
\* oldest of them, at least, has been taken out of the queue by then.
C19_QueuedAtShutdownFlushedOnce ==
    /\ sdpc = "joining" => stopEvent
    /\ (wpc = "exited" /\ atStop # <<>>) =>
           InSeq(Head(atStop).id, writeQueue) = 0

\* C20: what get_stats returns from its queries equals the reference
\* computation over the rows of inference_runs: total_runs is the number of
\* rows, success_rate is 100 * successful / total rounded to 2 decimals,
\* avg_fps and avg_inference_time_ms are the means over all the successful
\* rows, and each task's entry holds the count and the mean fps of the
\* task's successful rows.
C20_StatsEqualReference ==
    (stOut # NoStats /\ ~stFailed) =>
        LET good == SelectSeq(stRows, LAMBDA r : r.success)
            goodOf(t) == SelectSeq(good, LAMBDA r : r.task = t)
        IN  /\ stOut.total_runs = Len(stRows)
            /\ stOut.success_rate =
                   IF stRows = <<>> THEN 0
                   ELSE Round2(100 * Len(good), Len(stRows))
            /\ stOut.avg_fps =
                   IF good = <<>> THEN 0 ELSE Round2(SumFps(good), Len(good))
            /\ stOut.avg_inference_time_ms =
                   IF good = <<>> THEN 0 ELSE Round2(SumMs(good), Len(good))
            /\ \A t \in StatTasks :
                   goodOf(t) # <<>> =>
                       /\ t \in DOMAIN stOut.task_stats
                       /\ stOut.task_stats[t].count = Len(goodOf(t))
                       /\ stOut.task_stats[t].avg_fps =
                              Frac(SumFps(goodOf(t)), Len(goodOf(t)))

\* C21: when inference_runs has no row, or only rows of failed runs,
\* get_stats returns a dict whose success_rate, avg_fps and
\* avg_inference_time_ms are 0 and whose task breakdown is empty, with
\* total_runs the number of rows; when a query raises, it returns the
\* all-zero dict. In every case the call returns a dict.
C21_NoSuccessAllZero ==
    stOut # NoStats =>
        /\ DOMAIN stOut = DOMAIN StatsOnError
        /\ stFailed => stOut = StatsOnError
        /\ (\A i \in DOMAIN stRows : ~stRows[i].success) =>
               /\ stOut.success_rate = 0
               /\ stOut.avg_fps = 0
               /\ stOut.avg_inference_time_ms = 0
               /\ stOut.task_stats = <<>>
               /\ stOut.total_runs \in {0, Len(stRows)}
        /\ stRows = <<>> => stOut = StatsOnError

C21_Witness ==
    /\ stOut # NoStats
    /\ ~stFailed
    /\ stRows # <<>>
    /\ \A i \in DOMAIN stRows :
          ~stRows[i].success /\ stRows[i].fps > 0
          /\ stRows[i].inference_time_ms > 0

RECURSIVE SumCounts(_, _)
SumCounts(ts, S) ==
    IF S = {} THEN 0
    ELSE LET t == CHOOSE x \in S : TRUE
         IN  ts[t].count + SumCounts(ts, S \ {t})

\* C22: a get_stats call that runs while the writer commits batches
\* returns values computed from one state of the table: the success count
\* it used is at most the total it used, so success_rate is at most 100,
\* and the counts of the task breakdown add up to the success count.
C22_StatsFromOneSnapshot ==
    (spc = "done" /\ ~stFailed) =>
        /\ sread.success_runs <= sread.total_runs
        /\ stOut.success_rate <= 10000
        /\ SumCounts(stOut.task_stats, DOMAIN stOut.task_stats)
              = sread.success_runs

\* C23: get_recent_runs(limit) returns at most limit rows, most recent
\* first: of two returned rows the one persisted later (the larger id)
\* comes earlier, also when both carry the same timestamp, and no row
\* persisted after a returned row is left out.
C23_RecentNewestFirst ==
    rcOut # NoRecent =>
        /\ Len(rcOut) <= rcLimit
        /\ \A i, j \in DOMAIN rcOut : i < j => rcOut[i].id > rcOut[j].id
        /\ \A i \in DOMAIN rcOut : \A k \in DOMAIN rcRows :
              rcRows[k].id > rcOut[i].id =>
                  \E j \in DOMAIN rcOut : rcOut[j] = rcRows[k]

\* C24: a failed load is not cached. When the first YOLO(path) of a
\* _load_model fails, the fallback is attempted, once; when that fails too,
\* get_model returns None and _models is left without the task; and a
\* get_model that finds no entry for its task starts a new _load_model.
C24_FailedLoadNotCached ==
    [][\A t \in Threads :
          /\ (gpc[t] = "primary" /\ gpc'[t] # "primary"
                 /\ models'[gtask[t]] = 0) => gpc'[t] = "fallback"
          /\ (gpc[t] = "fallback" /\ gpc'[t] # "fallback") => gpc'[t] = "ret"
          /\ (gpc[t] = "ret" /\ gpc'[t] # "ret" /\ models[gtask[t]] = 0) =>
                 /\ gret'[t] = RetNone
                 /\ models' = models
          /\ (gpc[t] = "acquire" /\ gpc'[t] # "acquire"
                 /\ models[gtask[t]] = 0) =>
                 /\ gpc'[t] = "config"
                 /\ loads'[gtask[t]] = loads[gtask[t]] + 1]_vars

\* a get_model call has returned None after both attempts failed, and a
\* later call for the same task is inside a new _load_model
C24_Witness ==
    \E t \in Threads :
        /\ HasAppContext(t)
        /\ gpc[t] = "fallback"
        /\ gen[t] > 0
        /\ RetNone \in firstRes[gtask[t]]
        /\ models[gtask[t]] = 0

\* C25: _models holds at most one handle per task: no more YOLO objects
\* are installed for a task than the one in its entry. Once a task has an
\* entry the entry stays as it is, no further _load_model is run for the
\* task, and every get_model that finds the entry returns its handle.
C25_HandleInstalledOnceAndKept ==
    /\ [](\A k \in Tasks : okLoads[k] = IF models[k] = 0 THEN 0 ELSE 1)
    /\ [][\A k \in Tasks :
             models[k] # 0 =>
                 /\ models'[k] = models[k]
                 /\ loads'[k] = loads[k]
                 /\ \A t \in Threads :
                       (gtask[t] = k /\ gpc[t] \in {"acquire", "ret"}
                          /\ gpc'[t] = "done") =>
                           gret'[t] = RetHandle(models[k])]_vars

\* a get_model call begun after the handle was installed has returned it
\* without loading
C25_Witness ==
    \E t \in Threads :
        /\ gpc[t] = "done"
        /\ gen[t] > 0
        /\ ~didLoad[t]
        /\ gret[t] = RetHandle(models[gtask[t]])
        /\ models[gtask[t]] # 0

\* C26: the options given to model.predict are positive: an imgsz or conf
\* that is zero or negative in the call is clamped or the call is rejected,
\* so it never reaches predict as it is; an option that is absent has its
\* default, 640 for imgsz and 0.25 for conf.
C26_OptionsPositive ==
    opredict # NoPredict =>
        /\ opredict.imgsz > 0
        /\ opredict.conf > 0
        /\ "imgsz" \notin DOMAIN okwargs => opredict.imgsz = DefaultImgsz
        /\ "conf" \notin DOMAIN okwargs => opredict.conf = DefaultConf

\* C27: preload_models, run by the warm-up thread of create_app, never
\* ends in an exception. It takes the tasks of its list in turn: for each
\* it calls get_model and, given a handle, runs one predict; a task whose
\* load or warm-up failed is followed by the next task, and preload_models
\* returns only when the whole list is done.
C27_PreloadGoesOn ==
    /\ preEnd # "raised"
    /\ Len(preLog) = preIdx
    /\ \A i \in DOMAIN preLog :
          /\ preLog[i].task = PreloadTasks[i]
          /\ preLog[i].got \in {"handle", "none"}
          /\ preLog[i].got = "handle" <=> preLog[i].warm \in {"ok", "failed"}
    /\ preEnd = "returned" <=> preIdx = Len(PreloadTasks)
    /\ (preEnd = "running" /\ gpc[Warmup] = "idle") => ENABLED PreloadCall

\* the load of the first task failed, the warm-up of the second failed,
\* and preload_models has returned
C27_Witness ==
    /\ preEnd = "returned"
    /\ preLog[1].got = "none"
    /\ preLog[2].warm = "failed"

\* C28: the batch of a cycle holds between 1 and 100 items (BatchCap
\* here); every item it takes is the oldest of the queue at that moment,
\* so the batch is a run of the queue in FIFO order; and the batch is
\* written in one transaction: after it, the rows are the old rows
\* followed by the whole batch, or the old rows.
C28_BatchIsPrefixOneTransaction ==
    /\ [](wpc \in {"drain", "write"} => Len(writes) \in 1..BatchCap)
    /\ [][/\ (writes' # writes /\ writes' # <<>>) =>
                /\ writeQueue # <<>>
                /\ writes' = Append(writes, Head(writeQueue))
                /\ writeQueue' = Tail(writeQueue)
          /\ (wpc = "write" /\ wpc' # "write") =>
                /\ writes' = <<>>
                /\ rows' = rows \o writes \/ rows' = rows]_vars

\* the batch is at the cap while more items wait in the queue
C28_Witness ==
    /\ wpc = "write"
    /\ Len(writes) = BatchCap
    /\ writeQueue # <<>>
    /\ rows # <<>>

\* C29: a batch whose transaction failed is discarded and never tried
\* again: none of its items is back in the queue, in a batch or among the
\* rows. The failure reaches no producer, and the writer goes back to the
\* top of its loop, where it is ready for the items enqueued afterwards.
C29_FailedBatchDiscardedWriterGoesOn ==
    /\ [](\A id \in discarded :
             InSeq(id, writeQueue) + InSeq(id, writes) + InSeq(id, rows) = 0)
    /\ [][(wpc = "write" /\ wpc' # "write") =>
             /\ wpc' = "top"
             /\ writes' = <<>>
             /\ UNCHANGED <<writeQueue, ppc, stopEvent>>]_vars

\* a transaction failed, and an item enqueued after the failure is now a
\* row
C29_Witness ==
    /\ discarded # {}
    /\ nextAtFail > 0
    /\ \E i \in DOMAIN rows : rows[i].id > nextAtFail

\* C30: while the writer runs (nobody calls shutdown), every item put into
\* the queue becomes a row in the end unless its transaction fails; and a writer
\* waiting in get with an item queued takes that item: it never lets the
\* second pass and starts over with the item left in the queue.
C30_AcceptedEventuallyDurable ==
    /\ \A id \in 1..(2 * FairLogCalls) :
          (id \in accepted) ~>
              (InSeq(id, rows) = 1 \/ id \in discarded)
    /\ [][(wpc = "get" /\ writeQueue # <<>> /\ wpc' # wpc) =>
             /\ wpc' = "drain"
             /\ writes' = <<Head(writeQueue)>>
             /\ writeQueue' = Tail(writeQueue)]_vars

\* more rows than one batch holds, all written while the writer was
\* running and no transaction failed
C30_Witness ==
    /\ Len(rows) > BatchCap
    /\ ~stopEvent
    /\ discarded = {}
    /\ \A id \in accepted : InSeq(id, rows) = 1

\* C31: items leave the queue in the order of their puts. Item ids are
\* given in that order, so: whenever an item has been taken by the writer,
\* every accepted item put before it has been taken too (it is in the same
\* batch or was in an earlier one), and the rows and the current batch
\* hold their items in the order of the puts.
C31_FlushFollowsEnqueue ==
    /\ \A a, b \in accepted :
          (a < b /\ InSeq(b, writeQueue) = 0) => InSeq(a, writeQueue) = 0
    /\ \A i, j \in DOMAIN rows : i < j => rows[i].id < rows[j].id
    /\ \A i, j \in DOMAIN writes : i < j => writes[i].id < writes[j].id
    /\ \A i \in DOMAIN rows : \A j \in DOMAIN writes :
          rows[i].id < writes[j].id

\* rows of an earlier batch, a batch in the writer's hands and a later
\* item still queued
C31_Witness ==
    /\ rows # <<>>
    /\ Len(writes) >= 2
    /\ writeQueue # <<>>
    /\ ppc["p1"] = "idle" /\ ppc["p2"] = "idle"

\* C32: the number of run_inference executions in progress in the pool never
\* exceeds self.max_workers; max_workers is the constructor's argument when
\* one is given and otherwise the cpu count clamped to 2..8 (2 when the count
\* is unknown), and it never changes after construction; a submission made
\* before shutdown is appended to the queue whatever the workers are doing,
\* so the only submissions refused are those made after shutdown began.
C32_PoolSizeBoundsRunning ==
    /\ [](/\ Cardinality({w \in Workers : wjob[w] # 0}) <= engine.max_workers
          /\ engine.max_workers =
                IF engine.configured # 0 THEN engine.configured
                ELSE IF engine.cpus < MinPoolSize THEN MinPoolSize
                ELSE IF engine.cpus > MaxPoolSize THEN MaxPoolSize
                ELSE engine.cpus
          /\ \A j \in Jobs : jstate[j] = "rejected" => jafter[j])
    /\ [][engine' = engine]_vars
    /\ [][\A j \in Jobs :
            (jstate[j] = "new" /\ jstate'[j] # "new" /\ ~poolShutdown)
                => /\ jstate'[j] = "queued"
                   /\ workQueue' = Append(workQueue, j)]_vars

\* a pool of one worker that is running a submission while another one waits
\* in the queue
C32_Witness ==
    /\ engine.max_workers = 1
    /\ \A w \in ActiveWorkers : wjob[w] # 0
    /\ workQueue # <<>>
    /\ jstate[Head(workQueue)] = "queued"

\* C33: a get_model call for a task whose handle is installed is never kept
\* waiting for the lock by a thread that is loading a different task.
C33_InstalledGetNeverWaits ==
    \A t \in Threads :
        (gpc[t] = "acquire" /\ models[gtask[t]] # 0)
            => ~ \E u \in Loading :
                    /\ u # t
                    /\ modelLock = u
                    /\ gtask[u] # gtask[t]

\* C34: a get_model call that a pool worker makes for a task without a
\* handle runs its load to the end as the call of a thread with an
\* application context does: it returns the handle or None, and never ends
\* with the exception of a failed read of the configuration.
C34_WorkerLoadsAsAnyThread ==
    \A w \in Workers :
        (gpc[w] = "done" /\ didLoad[w]) => gret[w].kind \in {"handle", "none"}

\* C35: the step at which an exception leaves get_model releases the lock
\* and changes no entry of _models, and the lock is only ever held by a
\* thread that is inside get_model with a step to take: a thread waiting
\* for the lock never waits for a holder that has left.
C35_RaiseReleasesLock ==
    /\ [](modelLock # NoThread
            => /\ modelLock \in Threads
               /\ gpc[modelLock] \in {"config", "primary", "fallback", "ret"})
    /\ [][\A t \in Threads :
            (gret[t].kind # "raised" /\ gret'[t].kind = "raised")
                => /\ modelLock = t
                   /\ modelLock' = NoThread
                   /\ models' = models]_vars

\* a get_model call has ended with an exception, and a call of another
\* thread has taken the lock since and is loading
C35_Witness ==
    \E t, u \in Threads :
        /\ t # u
        /\ gpc[t] = "done"
        /\ gret[t].kind = "raised"
        /\ didLoad[t]
        /\ modelLock = u
        /\ gpc[u] = "primary"
        /\ gtask[u] = gtask[t]
        /\ gen[u] >= 1

C37_TimeoutCountsQueueWait ==
    /\ [](\A j \in Jobs :
             (jstate[j] = "queued" /\ cstate[j] = "waiting")
                 => ENABLED CallerTimeout(j))
    /\ [][\A j \in Jobs :
            (~ctimedOut[j] /\ ctimedOut'[j] /\ jstate[j] = "queued")
                => /\ cret'[j].error = "Inference timeout"
                   /\ ~cret'[j].success
                   /\ runs'[j] = 0
                   /\ \E k \in DOMAIN workQueue' : workQueue'[k] = j]_vars
    /\ \A j \in Jobs :
          (ctimedOut[j] /\ jstate[j] = "queued")
              ~> (jstate[j] = "done" /\ runs[j] = 1)

\* The only worker is running one submission, and the wait for the next,
\* which is still in the queue, has run out.
C37_Witness ==
    \E i, j \in Jobs :
        /\ i < j
        /\ engine.max_workers = 1
        /\ \E w \in ActiveWorkers : wjob[w] = i
        /\ jstate[j] = "queued" /\ runs[j] = 0
        /\ ctimedOut[j] /\ cret[j].error = "Inference timeout"
        /\ ~ctimedOut[i]

\* C38: the fps of the inference_runs item built for a successful call is
\* the fps of the result the caller was given.
C38_StoredFpsIsReportedFps ==
    trow # NoRow => trow.fps = tresult.fps

\* C39: get_models calls get_model for each task. A call that finds no
\* handle under the lock starts a load (it is counted in `loads`) and one
\* that finds a handle starts none; get_model returns a handle exactly when
\* one is installed as it returns, put there by this call's load or an
\* earlier one, and returns none only after a load of its own that failed;
\* the entry of the task says loaded exactly when a handle was returned;
\* handles stay, so what the response says is loaded is installed; and
\* while another thread is loading, the call cannot take the lock.
C39_ListModelsLoads ==
    /\ [](/\ (gpc["req1"] = "acquire" /\ Loading \ {"req1"} # {})
                => ~ENABLED GetAcquire("req1")
          /\ \A i \in DOMAIN lsOut :
                lsOut[i].loaded => models[lsOut[i].task] # 0)
    /\ [][(gpc["req1"] = "acquire" /\ gpc'["req1"] # "acquire")
            => IF models[gtask["req1"]] = 0
                 THEN /\ gpc'["req1"] = "config"
                      /\ loads'[gtask["req1"]] = loads[gtask["req1"]] + 1
                 ELSE /\ gpc'["req1"] = "ret"
                      /\ loads' = loads]_vars
    /\ [][(gpc["req1"] = "ret" /\ gpc'["req1"] = "done")
            => /\ gret'["req1"].kind = "handle" <=> models[gtask["req1"]] # 0
               /\ gret'["req1"].kind # "handle" => didLoad["req1"]]_vars
    /\ [][Len(lsOut') = Len(lsOut) + 1
            => /\ lsOut'[Len(lsOut')].task = ListTasks[Len(lsOut')]
               /\ lsOut'[Len(lsOut')].loaded <=> gret["req1"].kind = "handle"
               /\ ~lsOut'[Len(lsOut')].loaded => didLoad["req1"]]_vars

\* The request has loaded detect itself before the warm-up began, and its
\* load of classify has failed: the response will say loaded for the one
\* and not loaded for the other.
C39_Witness ==
    /\ preIdx = 0 /\ gpc[Warmup] = "idle"
    /\ Len(lsOut) = 1 /\ lsOut[1].loaded
    /\ okLoads["detect"] = 1
    /\ gpc["req1"] = "done" /\ gtask["req1"] = "classify"
    /\ didLoad["req1"] /\ gret["req1"] = RetNone

=============================================================================
